---------------------------- MODULE Spec2Model ----------------------------
(***************************************************************************)
(* Model of the image / video block pipeline:                              *)
(*   - processAndGroupImage  (segmentation, sort, localSearchOptimization) *)
(*   - generateDiffImage                                                   *)
(*   - processVideoFrames    (keyframe scheduling, zIndex offsets, scan)   *)
(*   - scan3DCoveredBlocks                                                 *)
(*   - ImageWorkerPool                                                     *)
(* Each component has its own specification over the shared variables.     *)
(***************************************************************************)
EXTENDS Integers, Sequences, FiniteSets, TLC

VARIABLES
  \* processAndGroupImage
  image, sortBy, pgStage, pgBlocks,
  \* localSearchOptimization
  initialBlocks, currentBlocks, maxIterations, optPhase, iter, greedyMerges,
  merged,
  \* generateDiffImage
  prevImage, currentImage, colorThreshold, diffStage, diffResult,
  \* processVideoFrames / scan3DCoveredBlocks
  frameInfos, currentIFrameIndex, scanStage, scanResult,
  frames, vidPc, lastIFramePath, prevFramePath, maxZIndexUsed,
  iFrameInterval, diffThreshold, diffMode, iframeImageCache,
  mcfunctionPromises, files,
  \* ImageWorkerPool
  workers, availableWorkers, taskQueue, running, promises, submitted,
  \* processVP9VideoWithChunkMetadata
  vp9Height, groupLineCount, vp9Pc, imageOutput, allFramesMetadata,
  \* generateVideoControlFunctions and the scripts it writes
  lastFrameIndex, isFillGaps, current_frame, last_frame, video_playing,
  dataFrameIndex, playPc, frameCalls, executedFrames,
  \* the frame files on disk and the arguments of a generateDiffImage call
  imageFiles, diffCall

pgVars == <<image, sortBy, pgStage, pgBlocks>>

optVars == <<initialBlocks, currentBlocks, maxIterations, optPhase, iter, greedyMerges,
             merged>>

diffVars == <<prevImage, currentImage, colorThreshold, diffStage, diffResult>>

scanVars == <<frameInfos, currentIFrameIndex, scanStage, scanResult>>

vidVars == <<frames, vidPc, lastIFramePath, prevFramePath, maxZIndexUsed,
             iFrameInterval, diffThreshold, diffMode, iframeImageCache,
             mcfunctionPromises, files>>

poolVars == <<workers, availableWorkers, taskQueue, running, promises, submitted>>

vp9Vars == <<vp9Height, groupLineCount, vp9Pc, imageOutput, allFramesMetadata>>

playVars == <<lastFrameIndex, isFillGaps, current_frame, last_frame, video_playing,
              dataFrameIndex, playPc, frameCalls, executedFrames>>

cacheVars == <<imageFiles, diffCall>>

vars == <<pgVars, optVars, diffVars, scanVars, vidVars, poolVars, vp9Vars, playVars,
          cacheVars>>

notPG == <<optVars, diffVars, scanVars, vidVars, poolVars, vp9Vars, playVars,
            cacheVars>>

notOpt == <<pgVars, diffVars, scanVars, vidVars, poolVars, vp9Vars, playVars,
            cacheVars>>

notDiff == <<pgVars, optVars, scanVars, vidVars, poolVars, vp9Vars, playVars,
            cacheVars>>

notScan == <<pgVars, optVars, diffVars, vidVars, poolVars, vp9Vars, playVars,
            cacheVars>>

notVid == <<pgVars, optVars, prevImage, currentImage, diffStage, diffResult,
            scanStage, scanResult, poolVars, vp9Vars, playVars,
            cacheVars>>

notPool == <<pgVars, optVars, diffVars, scanVars, vidVars, vp9Vars, playVars,
            cacheVars>>

notVP9 == <<pgVars, optVars, diffVars, scanVars, vidVars, poolVars, playVars,
            cacheVars>>

notPlay == <<pgVars, optVars, diffVars, scanVars, vidVars, poolVars, vp9Vars,
            cacheVars>>

notCache == <<pgVars, optVars, prevImage, currentImage, colorThreshold, scanVars,
              frames, vidPc, lastIFramePath, prevFramePath, maxZIndexUsed,
              iFrameInterval, diffThreshold, diffMode, mcfunctionPromises, files,
              poolVars, vp9Vars, playVars>>

(***************************************************************************)
(* Bounds                                                                  *)
(***************************************************************************)
ImgW == 2
MaxIterations == 2
MaxBlocks == 3
DiffW == 2
ScanFrames == 3
LongScanFrames == 12
MaxFrames == 4
PoolSize == 2
MaxJobs == 4
NumIds == 2

(***************************************************************************)
(* Generic helpers                                                         *)
(***************************************************************************)
SeqRange(s) == {s[k] : k \in 1..Len(s)}

\* a value computed once and then used under a name (const x = ...)
TheOne(S) == CHOOSE x \in S : TRUE

SetMin(S) == CHOOSE m \in S : \A e \in S : m <= e

SetMax(S) == CHOOSE m \in S : \A e \in S : m >= e

\* the elements of a finite set of integers in ascending order
RECURSIVE SortedSeq(_)
SortedSeq(S) ==
  IF S = {} THEN <<>> ELSE <<SetMin(S)>> \o SortedSeq(S \ {SetMin(S)})

(***************************************************************************)
(* Pixels and images.  An image is the decoded RGBA buffer: data[i+1] is   *)
(* the pixel at buffer offset 4*i, i = y*w + x.                            *)
(***************************************************************************)
\* Pixel = { r, g, b, a }
Px(r, g, b, a) == [r |-> r, g |-> g, b |-> b, a |-> a]

\* colorHex: ((r << 16) | (g << 8) | b).toString(16).padStart(6,'0'),
\* rendered as its six hexadecimal digits.
ColorKey(p) ==
  LET n == (p.r * 65536) + (p.g * 256) + p.b
  IN  [k \in 1..6 |-> (n \div (16 ^ (6 - k))) % 16]

Neighbors4Slip(p) ==
  << <<p[1] - 1, p[2]>>, <<p[1] + 1, p[2]>>, <<p[1], p[2] - 1>>, <<p[1] + 1, p[2] + 1>> >>

Neighbors4(p) ==
  << <<p[1] - 1, p[2]>>, <<p[1] + 1, p[2]>>, <<p[1], p[2] - 1>>, <<p[1], p[2] + 1>> >>

(***************************************************************************)
(* Blocks                                                                  *)
(***************************************************************************)
\* bounding box + area of a component, zIndex 0 until sorted
MakeBlock(color, component) ==
  LET xs == {component[k][1] : k \in 1..Len(component)}
      ys == {component[k][2] : k \in 1..Len(component)}
  IN  [color  |-> color,
       minX   |-> SetMin(xs), minY |-> SetMin(ys),
       maxX   |-> SetMax(xs), maxY |-> SetMax(ys),
       width  |-> SetMax(xs) - SetMin(xs) + 1,
       height |-> SetMax(ys) - SetMin(ys) + 1,
       area   |-> Len(component),
       pixels |-> component,
       zIndex |-> 0]

PixelSet(b) == SeqRange(b.pixels)

(***************************************************************************)
(* processAndGroupImage, step 2: scan pixels, bucket coordinates by colour *)
(* (pixelMap is an insertion-ordered Map: a sequence of entries).          *)
(***************************************************************************)
SkipPixelOpaqueOnly(p) == p.a # 255

SkipPixel(p) == p.a = 0

MapPut(map, key, pos) ==
  IF \E k \in 1..Len(map) : map[k].color = key
  THEN [k \in 1..Len(map) |->
          IF map[k].color = key
          THEN [map[k] EXCEPT !.positions = Append(@, pos)]
          ELSE map[k]]
  ELSE Append(map, [color |-> key, positions |-> <<pos>>])

RECURSIVE BuildPixelMap(_, _, _)
BuildPixelMap(img, i, map) ==
  IF i >= img.w * img.h THEN map
  ELSE LET p == img.data[i + 1]
           x == i % img.w
           y == i \div img.w
       IN  IF SkipPixel(p)
           THEN BuildPixelMap(img, i + 1, map)
           ELSE BuildPixelMap(img, i + 1, MapPut(map, ColorKey(p), <<x, y>>))

(***************************************************************************)
(* processAndGroupImage, step 3: BFS over 4-neighbours inside one colour   *)
(***************************************************************************)
\* the four-neighbour loop of one dequeued pixel
RECURSIVE ExpandNeighbors(_, _, _, _, _)
ExpandNeighbors(nbrs, k, queue, visited, posSet) ==
  IF k > Len(nbrs) THEN [queue |-> queue, visited |-> visited]
  ELSE IF nbrs[k] \notin visited /\ nbrs[k] \in posSet
       THEN ExpandNeighbors(nbrs, k + 1, Append(queue, nbrs[k]),
                            visited \cup {nbrs[k]}, posSet)
       ELSE ExpandNeighbors(nbrs, k + 1, queue, visited, posSet)

RECURSIVE BFS(_, _, _, _)
BFS(queue, visited, component, posSet) ==
  IF queue = <<>> THEN [component |-> component, visited |-> visited]
  ELSE LET p == Head(queue)
           e == ExpandNeighbors(Neighbors4(p), 1, Tail(queue), visited, posSet)
       IN  BFS(e.queue, e.visited, Append(component, p), posSet)

\* the loop over start positions of one colour bucket
RECURSIVE ComponentsOf(_, _, _, _, _)
ComponentsOf(color, positions, k, visited, acc) ==
  IF k > Len(positions) THEN acc
  ELSE IF positions[k] \in visited
       THEN ComponentsOf(color, positions, k + 1, visited, acc)
       ELSE LET r == BFS(<<positions[k]>>, visited \cup {positions[k]}, <<>>,
                         SeqRange(positions))
            IN  ComponentsOf(color, positions, k + 1, r.visited,
                             Append(acc, MakeBlock(color, r.component)))

RECURSIVE SegmentMap(_, _, _)
SegmentMap(map, k, acc) ==
  IF k > Len(map) THEN acc
  ELSE SegmentMap(map, k + 1,
                  ComponentsOf(map[k].color, map[k].positions, 1, {}, acc))

SegmentImage(img) == SegmentMap(BuildPixelMap(img, 0, <<>>), 1, <<>>)

(***************************************************************************)
(* processAndGroupImage, step 4: stable sort and zIndex = rank             *)
(***************************************************************************)
\* smaller areas first
AreaCmpAscending(a, b) == a.area - b.area <= 0

\* comparator(a, b) <= 0  (a may stay before b)
AreaCmpLE(a, b) == b.area - a.area <= 0

YXCmpLE(a, b) ==
  IF a.minY # b.minY THEN a.minY - b.minY <= 0 ELSE a.minX - b.minX <= 0

CmpLE(by, a, b) == IF by = "area" THEN AreaCmpLE(a, b) ELSE YXCmpLE(a, b)

\* stable insertion: b goes after every element that may stay before it
RECURSIVE InsertSorted(_, _, _)
InsertSorted(by, sorted, b) ==
  IF sorted = <<>> THEN <<b>>
  ELSE IF CmpLE(by, Head(sorted), b)
       THEN <<Head(sorted)>> \o InsertSorted(by, Tail(sorted), b)
       ELSE <<b>> \o sorted

RECURSIVE SortBlocks(_, _, _, _)
SortBlocks(by, blocks, k, acc) ==
  IF k > Len(blocks) THEN acc
  ELSE SortBlocks(by, blocks, k + 1, InsertSorted(by, acc, blocks[k]))

AssignZIndex(blocks) ==
  [k \in 1..Len(blocks) |-> [blocks[k] EXCEPT !.zIndex = k - 1]]

(***************************************************************************)
(* BlockMergeOptimizer                                                     *)
(***************************************************************************)
canMergeBlocksDiagonal(block1, block2) ==
  /\ block1.color = block2.color
  /\ \E k \in 1..Len(block2.pixels) : \E dx \in {-1, 0, 1} : \E dy \in {-1, 0, 1} :
       /\ <<dx, dy>> # <<0, 0>>
       /\ <<block2.pixels[k][1] + dx, block2.pixels[k][2] + dy>> \in PixelSet(block1)

canMergeBlocks(block1, block2) ==
  /\ block1.color = block2.color
  /\ \E k \in 1..Len(block2.pixels) :
       \E n \in 1..4 : Neighbors4(block2.pixels[k])[n] \in PixelSet(block1)

mergeBlocksKeepFirst(block1, block2) ==
  LET b == MakeBlock(block1.color, block1.pixels)
  IN  [b EXCEPT !.zIndex = IF block1.zIndex <= block2.zIndex
                           THEN block1.zIndex ELSE block2.zIndex]

mergeBlocks(block1, block2) ==
  LET mergedPixels == block1.pixels \o block2.pixels
      b == MakeBlock(block1.color, mergedPixels)
  IN  [b EXCEPT !.zIndex = IF block1.zIndex <= block2.zIndex
                           THEN block1.zIndex ELSE block2.zIndex]

\* colorGroups: colours in first-occurrence order, each with the indices of
\* its blocks in list order
GroupColors(blocks) ==
  LET first(k) == \A m \in 1..(k - 1) : blocks[m].color # blocks[k].color
      firsts == {k \in 1..Len(blocks) : first(k)}
  IN  [g \in 1..Cardinality(firsts) |->
         LET c == blocks[SortedSeq(firsts)[g]].color
         IN  SortedSeq({k \in 1..Len(blocks) : blocks[k].color = c})]

\* the mergeable pairs <<group, a, b>> with a before b inside one colour group
MergeablePairs(blocks, groups) ==
  {t \in {<<g, a, b>> : g \in 1..Len(groups),
                        a \in 1..Len(blocks), b \in 1..Len(blocks)} :
     /\ t[2] <= Len(groups[t[1]]) /\ t[3] <= Len(groups[t[1]])
     /\ t[2] < t[3]
     /\ Len(groups[t[1]]) >= 2
     /\ canMergeBlocks(blocks[groups[t[1]][t[2]]], blocks[groups[t[1]][t[3]]])}

\* scan order of the nested loops: group, then i, then j
PairBefore(s, t) ==
  \/ s[1] < t[1]
  \/ s[1] = t[1] /\ s[2] < t[2]
  \/ s[1] = t[1] /\ s[2] = t[2] /\ s[3] <= t[3]

FirstPairOf(groups, cand) ==
  IF cand = {} THEN <<>>
  ELSE LET t == CHOOSE t \in cand : \A s \in cand : PairBefore(t, s)
       IN  <<groups[t[1]][t[2]], groups[t[1]][t[3]]>>

FirstPairIn(blocks, groups) ==
  TheOne({FirstPairOf(groups, cand) : cand \in {MergeablePairs(blocks, groups)}})

\* the first mergeable pair in scan order, as <<i, j>> of list indices, or <<>>
FirstMergeablePair(blocks) ==
  TheOne({FirstPairIn(blocks, colorGroups) : colorGroups \in {GroupColors(blocks)}})

MergePairDropOnly(blocks, pr, idx) ==
  [merged |-> TRUE, blocks |-> [k \in 1..Len(idx) |-> blocks[idx[k]]]]

\* filter out the two Blocks (by identity) and append their merge
MergePair(blocks, pr, idx) ==
  [merged |-> TRUE,
   blocks |-> Append([k \in 1..Len(idx) |-> blocks[idx[k]]],
                     mergeBlocks(blocks[pr[1]], blocks[pr[2]]))]

\* `null': no pair found
NoMerge == [merged |-> FALSE, blocks |-> <<>>]

MergeFound(blocks, pr) ==
  IF pr = <<>> THEN NoMerge
  ELSE MergePair(blocks, pr,
                 SortedSeq({m \in 1..Len(blocks) : m # pr[1] /\ m # pr[2]}))

\* returns [merged |-> TRUE, blocks |-> ...] or NoMerge
tryMergeOperation(blocks) ==
  TheOne({MergeFound(blocks, pr) : pr \in {FirstMergeablePair(blocks)}})

\* cost scaled by 10 to stay in the integers: 10 * (100*count - 0.1*sum area)
RECURSIVE SumArea(_)
SumArea(blocks) ==
  IF blocks = <<>> THEN 0 ELSE Head(blocks).area + SumArea(Tail(blocks))

calculateCost(blocks) == (Len(blocks) * 1000) - SumArea(blocks)

RECURSIVE GreedyMerge(_)
GreedyContinue(blocks, m) == IF m.merged THEN GreedyMerge(m.blocks) ELSE blocks

GreedyMerge(blocks) == GreedyContinue(blocks, tryMergeOperation(blocks))

\* accept the neighbour only if it exists and is strictly cheaper
AcceptIfCheaper(blocks, m) ==
  IF m.merged /\ calculateCost(m.blocks) < calculateCost(blocks)
  THEN m.blocks ELSE blocks

\* one Phase-2 iteration
LocalSearchStep(blocks, it) ==
  IF it % 2 = 0 THEN AcceptIfCheaper(blocks, tryMergeOperation(blocks)) ELSE blocks

RECURSIVE LocalSearch(_, _, _)
LocalSearch(blocks, it, maxIter) ==
  IF it >= maxIter THEN blocks
  ELSE LocalSearch(LocalSearchStep(blocks, it), it + 1, maxIter)

localSearchOptimization(initial, maxIter) ==
  AssignZIndex(LocalSearch(GreedyMerge(initial), 0, maxIter))

(***************************************************************************)
(* processAndGroupImage as a process: decode -> segment -> sort -> optimize*)
(***************************************************************************)
Transparent == Px(255, 0, 0, 0)
Red         == Px(255, 0, 0, 255)
RedHalf     == Px(255, 0, 0, 128)
Blue        == Px(0, 0, 255, 255)

SegPalette == {Transparent, Red, RedHalf, Blue}

SegImages == {[w |-> ImgW, h |-> 2, data |-> d] :
                d \in [1..(ImgW * 2) -> SegPalette]}

PGInit ==
  /\ image \in SegImages
  /\ sortBy \in {"area", "y_x"}
  /\ pgStage = "decoded"
  /\ pgBlocks = <<>>

PGSegment ==
  /\ pgStage = "decoded"
  /\ pgBlocks' = SegmentImage(image)
  /\ pgStage' = "segmented"
  /\ UNCHANGED <<image, sortBy>>
  /\ UNCHANGED notPG

PGSort ==
  /\ pgStage = "segmented"
  /\ pgBlocks' = AssignZIndex(SortBlocks(sortBy, pgBlocks, 1, <<>>))
  /\ pgStage' = "sorted"
  /\ UNCHANGED <<image, sortBy>>
  /\ UNCHANGED notPG

PGOptimize ==
  /\ pgStage = "sorted"
  /\ pgBlocks' = localSearchOptimization(pgBlocks, MaxIterations)
  /\ pgStage' = "optimized"
  /\ UNCHANGED <<image, sortBy>>
  /\ UNCHANGED notPG

PGNext == PGSegment \/ PGSort \/ PGOptimize

PGIdle ==
  /\ image = [w |-> 0, h |-> 0, data |-> <<>>]
  /\ sortBy = "area"
  /\ pgStage = "idle"
  /\ pgBlocks = <<>>


(***************************************************************************)
(* localSearchOptimization as a process over an arbitrary Block list       *)
(***************************************************************************)
OptColorA == ColorKey(Red)
OptColorB == ColorKey(Blue)

\* well-formed Blocks (4-connected, area = number of pixels) over the three
\* coordinates (0,0), (1,0), (1,1); (0,0) and (1,1) touch only diagonally
OptBlockUniverse ==
  {MakeBlock(OptColorA, px) :
     px \in {<< <<0, 0>> >>, << <<1, 0>> >>, << <<1, 1>> >>,
             << <<0, 0>>, <<1, 0>> >>, << <<1, 0>>, <<1, 1>> >>,
             << <<0, 0>>, <<1, 0>>, <<1, 1>> >>}}
  \cup
  {MakeBlock(OptColorB, px) : px \in {<< <<1, 0>> >>, << <<0, 0>>, <<1, 0>> >>}}

\* the Blocks of one image are connected components: no two share a pixel
PixelDisjoint(bs) ==
  \A j \in 1..Len(bs) : \A k \in 1..Len(bs) :
     j # k => PixelSet(bs[j]) \cap PixelSet(bs[k]) = {}

OptInit ==
  /\ \E n \in 0..MaxBlocks :
       \E bs \in {l \in [1..n -> OptBlockUniverse] : PixelDisjoint(l)} :
          initialBlocks = AssignZIndex(bs)
  /\ maxIterations \in 0..MaxIterations
  /\ currentBlocks = initialBlocks
  /\ optPhase = "greedy"
  /\ iter = 0
  /\ greedyMerges = 0
  /\ merged = NoMerge

\* Phase 1, top of the while loop: const merged = tryMergeOperation(...)
OptTryMerge ==
  /\ optPhase = "greedy"
  /\ merged' = tryMergeOperation(currentBlocks)
  /\ optPhase' = "tried"
  /\ UNCHANGED <<initialBlocks, currentBlocks, maxIterations, iter, greedyMerges>>
  /\ UNCHANGED notOpt

\* Phase 1 left after its first merge
OptGreedyMergeOnce ==
  /\ optPhase = "tried"
  /\ merged.merged
  /\ currentBlocks' = merged.blocks
  /\ greedyMerges' = greedyMerges + 1
  /\ optPhase' = "local"
  /\ UNCHANGED <<initialBlocks, maxIterations, iter, merged>>
  /\ UNCHANGED notOpt

\* Phase 1, a pair was found: take the merged list and loop
OptGreedyMerge ==
  /\ optPhase = "tried"
  /\ merged.merged
  /\ currentBlocks' = merged.blocks
  /\ greedyMerges' = greedyMerges + 1
  /\ optPhase' = "greedy"
  /\ UNCHANGED <<initialBlocks, maxIterations, iter, merged>>
  /\ UNCHANGED notOpt

\* Phase 1, merged === null: break
OptGreedyDone ==
  /\ optPhase = "tried"
  /\ ~merged.merged
  /\ optPhase' = "local"
  /\ iter' = 0
  /\ UNCHANGED <<initialBlocks, currentBlocks, maxIterations, greedyMerges, merged>>
  /\ UNCHANGED notOpt

\* Phase 2, one iteration of the for loop
OptLocalSearchIter ==
  /\ optPhase = "local"
  /\ iter < maxIterations
  /\ currentBlocks' = LocalSearchStep(currentBlocks, iter)
  /\ iter' = iter + 1
  /\ UNCHANGED <<initialBlocks, maxIterations, optPhase, greedyMerges, merged>>
  /\ UNCHANGED notOpt

\* loop exit, zIndex reassigned by list order, return
OptFinish ==
  /\ optPhase = "local"
  /\ iter >= maxIterations
  /\ currentBlocks' = AssignZIndex(currentBlocks)
  /\ optPhase' = "done"
  /\ UNCHANGED <<initialBlocks, maxIterations, iter, greedyMerges, merged>>
  /\ UNCHANGED notOpt

OptNext ==
  OptTryMerge \/ OptGreedyMerge \/ OptGreedyDone \/ OptLocalSearchIter \/ OptFinish

OptIdle ==
  /\ initialBlocks = <<>>
  /\ currentBlocks = <<>>
  /\ maxIterations = 0
  /\ optPhase = "idle"
  /\ iter = 0
  /\ greedyMerges = 0
  /\ merged = NoMerge

(***************************************************************************)
(* FrameDiffEngine: generateDiffImage                                      *)
(***************************************************************************)
AbsDiff(a, b) == IF a >= b THEN a - b ELSE b - a

Max3(a, b, c) == SetMax({a, b, c})

\* maxDiff of one pixel pair; alpha does not take part
MaxDiff(p, c) == Max3(AbsDiff(p.r, c.r), AbsDiff(p.g, c.g), AbsDiff(p.b, c.b))

ExceedsInverted(maxDiff, threshold) == maxDiff < threshold

ExceedsOrEquals(maxDiff, threshold) == maxDiff >= threshold

Exceeds(maxDiff, threshold) == maxDiff > threshold

\* the loop over i in 0..totalPixels-1; acc is the diffPixels map
RECURSIVE DiffLoop(_, _, _, _, _, _, _)
DiffLoop(prevData, curData, i, totalPixels, width, threshold, acc) ==
  IF i >= totalPixels THEN acc
  ELSE IF Exceeds(MaxDiff(prevData[i + 1], curData[i + 1]), threshold)
       THEN LET y == i \div width
                x == i % width
            IN  DiffLoop(prevData, curData, i + 1, totalPixels, width, threshold,
                         [c \in (DOMAIN acc) \cup {<<x, y>>} |->
                            IF c = <<x, y>> THEN curData[i + 1] ELSE acc[c]])
       ELSE DiffLoop(prevData, curData, i + 1, totalPixels, width, threshold, acc)

\* ctx.drawImage(img, 0, 0, width, height) followed by getImageData: the
\* source stretched over the width x height canvas, each canvas pixel taken
\* from the source pixel it falls on (smoothing left out); the buffer itself
\* when the sizes agree
drawImage(img, width, height) ==
  [k \in 1..(width * height) |->
     img.data[((((k - 1) \div width) * img.h) \div height) * img.w
              + ((((k - 1) % width) * img.w) \div width) + 1]]

\* width and height are the reference's; the candidate is drawn into a canvas
\* of that size; diffRatio is kept as the fraction changedPixelCount /
\* totalPixels
generateDiffImage(prev, cur, threshold) ==
  LET width == prev.w
      height == prev.h
      totalPixels == width * height
      diffPixels == DiffLoop(prev.data, drawImage(cur, width, height), 0,
                             totalPixels, width, threshold, <<>>)
  IN  [width |-> width, height |-> height,
       diffPixels |-> diffPixels,
       diffRatio |-> [num |-> Cardinality(DOMAIN diffPixels), den |-> totalPixels]]

White     == Px(255, 255, 255, 255)
WhiteA0   == Px(255, 255, 255, 0)
Black     == Px(0, 0, 0, 255)
OffWhite  == Px(245, 244, 255, 255)

DiffPalette == {White, WhiteA0, Black, OffWhite}

DiffDims == {<<DiffW, 1>>, <<1, DiffW>>}

DiffImages ==
  UNION {{[w |-> d[1], h |-> d[2], data |-> px] :
            px \in [1..(d[1] * d[2]) -> DiffPalette]} : d \in DiffDims}

ColorThresholds == {0, 10, 11}

DiffInit ==
  /\ prevImage \in DiffImages
  /\ currentImage \in DiffImages
  /\ colorThreshold \in ColorThresholds
  /\ diffStage = "called"
  /\ diffResult = [width |-> 0, height |-> 0, diffPixels |-> <<>>,
                   diffRatio |-> [num |-> 0, den |-> 0]]

DiffRun ==
  /\ diffStage = "called"
  /\ diffResult' = generateDiffImage(prevImage, currentImage, colorThreshold)
  /\ diffStage' = "returned"
  /\ UNCHANGED <<prevImage, currentImage, colorThreshold>>
  /\ UNCHANGED notDiff

DiffNext == DiffRun

DiffIdle ==
  /\ prevImage = [w |-> 0, h |-> 0, data |-> <<>>]
  /\ currentImage = [w |-> 0, h |-> 0, data |-> <<>>]
  /\ colorThreshold = 0
  /\ diffStage = "idle"
  /\ diffResult = [width |-> 0, height |-> 0, diffPixels |-> <<>>,
                   diffRatio |-> [num |-> 0, den |-> 0]]

(***************************************************************************)
(* OcclusionScanner: scan3DCoveredBlocks                                   *)
(***************************************************************************)
MAX_SCAN_FRAMES == 10

GRID_SIZE == 10

\* `video_frame_${n}` / `video_frame_${n}_diff`
FrameTag(frameInfo) ==
  IF frameInfo.frameType = "I"
  THEN <<"video_frame", frameInfo.frameNumber>>
  ELSE <<"video_frame", frameInfo.frameNumber, "diff">>

\* coverage judged on bounding boxes instead of pixel coordinates
isBlockBoxCovered(targetBlock, coveringBlock) ==
  IF coveringBlock.zIndex <= targetBlock.zIndex THEN FALSE
  ELSE /\ coveringBlock.minX <= targetBlock.minX /\ targetBlock.maxX <= coveringBlock.maxX
       /\ coveringBlock.minY <= targetBlock.minY /\ targetBlock.maxY <= coveringBlock.maxY

isBlockFullyCovered(targetBlock, coveringBlock) ==
  IF coveringBlock.zIndex <= targetBlock.zIndex THEN FALSE
  ELSE \A k \in 1..Len(targetBlock.pixels) :
         targetBlock.pixels[k] \in PixelSet(coveringBlock)

\* allFrameInfos.slice(currentIFrameIndex), 0-based start
SliceFrom(s, start) == SubSeq(s, start + 1, Len(s))

\* the whole keyframe group, without the MAX_SCAN_FRAMES limit
FramesToScanWholeGroup(allFrameInfos, iFrameIndex) ==
  SliceFrom(allFrameInfos, iFrameIndex)

FramesToScan(allFrameInfos, iFrameIndex) ==
  LET currentGroupFrames == SliceFrom(allFrameInfos, iFrameIndex)
  IN  IF Len(currentGroupFrames) > MAX_SCAN_FRAMES
      THEN SubSeq(currentGroupFrames,
                  Len(currentGroupFrames) - MAX_SCAN_FRAMES + 1,
                  Len(currentGroupFrames))
      ELSE currentGroupFrames

\* allBlocks before sorting: every Block of every scanned frame with the
\* frame's tag
RECURSIVE CollectBlocks(_, _, _)
CollectBlocks(scanned, k, acc) ==
  IF k > Len(scanned) THEN acc
  ELSE CollectBlocks(scanned, k + 1,
         acc \o [m \in 1..Len(scanned[k].blocks) |->
                   [block  |-> scanned[k].blocks[m],
                    tag    |-> FrameTag(scanned[k]),
                    zIndex |-> scanned[k].blocks[m].zIndex]])

\* allBlocks.sort((a, b) => b.zIndex - a.zIndex), stable
RECURSIVE InsertByZDesc(_, _)
InsertByZDesc(sorted, it) ==
  IF sorted = <<>> THEN <<it>>
  ELSE IF it.zIndex - Head(sorted).zIndex <= 0
       THEN <<Head(sorted)>> \o InsertByZDesc(Tail(sorted), it)
       ELSE <<it>> \o sorted

RECURSIVE SortByZDesc(_, _, _)
SortByZDesc(items, k, acc) ==
  IF k > Len(items) THEN acc
  ELSE SortByZDesc(items, k + 1, InsertByZDesc(acc, items[k]))

\* spatialGrid key of an item: the cell of its bounding-box origin
GridKey(item) == <<item.block.minX \div GRID_SIZE, item.block.minY \div GRID_SIZE>>

\* spatialGrid.get(key) || []
GridCell(allBlocks, key) == SelectSeq(allBlocks, LAMBDA it : GridKey(it) = key)

\* the cells the target's bounding box spans
TargetCells(item) ==
  {<<gx, gy>> : gx \in (item.block.minX \div GRID_SIZE)..(item.block.maxX \div GRID_SIZE),
                gy \in (item.block.minY \div GRID_SIZE)..(item.block.maxY \div GRID_SIZE)}

TargetIsCovered(allBlocks, targetItem) ==
  \E key \in TargetCells(targetItem) :
    \E c \in 1..Len(GridCell(allBlocks, key)) :
      LET coveringItem == GridCell(allBlocks, key)[c]
      IN  /\ ~(coveringItem.zIndex <= targetItem.zIndex)
          /\ isBlockFullyCovered(targetItem.block, coveringItem.block)

\* the loop i = allBlocks.length-1 .. 0 filling coveredTagSet (insertion order)
RECURSIVE ScanTargets(_, _, _)
ScanTargets(allBlocks, i, covered) ==
  IF i < 1 THEN covered
  ELSE IF TargetIsCovered(allBlocks, allBlocks[i])
          /\ allBlocks[i].tag \notin SeqRange(covered)
       THEN ScanTargets(allBlocks, i - 1, Append(covered, allBlocks[i].tag))
       ELSE ScanTargets(allBlocks, i - 1, covered)

scan3DCoveredBlocks(allFrameInfos, iFrameIndex) ==
  IF Len(SliceFrom(allFrameInfos, iFrameIndex)) < 2 THEN <<>>
  ELSE LET allBlocks == SortByZDesc(
                          CollectBlocks(FramesToScan(allFrameInfos, iFrameIndex), 1, <<>>),
                          1, <<>>)
       IN  ScanTargets(allBlocks, Len(allBlocks), <<>>)

FrameInfo(n, t, ratio, bs) ==
  [frameNumber |-> n, frameType |-> t, diffRatio |-> ratio, blocks |-> bs,
   removeEntities |-> <<>>, coveredEntities |-> <<>>]

\* Block layouts of one frame around the boundary between grid cells 0 and 1
ScanLayouts ==
  { <<>>,
    << MakeBlock(OptColorA, << <<9, 0>> >>) >>,
    << MakeBlock(OptColorA, << <<10, 0>> >>) >>,
    << MakeBlock(OptColorA, << <<9, 0>>, <<10, 0>> >>) >>,
    << MakeBlock(OptColorA, << <<9, 0>> >>), MakeBlock(OptColorB, << <<10, 0>> >>) >>,
    << MakeBlock(OptColorA, << <<10, 0>>, <<10, 1>>, <<9, 1>> >>) >> }

\* zIndex of frame k's Blocks: rank within the frame plus the number of
\* Blocks of the frames before it
RECURSIVE BlocksBefore(_, _)
BlocksBefore(layouts, k) ==
  IF k <= 1 THEN 0 ELSE Len(layouts[k - 1]) + BlocksBefore(layouts, k - 1)

ScanHistory(layouts, types) ==
  [k \in 1..Len(layouts) |->
     FrameInfo(k - 1, types[k], [num |-> 0, den |-> 1],
               [m \in 1..Len(layouts[k]) |->
                  [layouts[k][m] EXCEPT !.zIndex = (m - 1) + BlocksBefore(layouts, k)]])]

\* index of the last keyframe of a history
LastIFrame(infos) == SetMax({k \in 1..Len(infos) : infos[k].frameType = "I"}) - 1

ScanInit ==
  /\ \E n \in 2..ScanFrames :
       \E layouts \in [1..n -> ScanLayouts] :
         \E types \in [1..n -> {"I", "P"}] :
           /\ types[1] = "I"
           /\ frameInfos = ScanHistory(layouts, types)
  /\ currentIFrameIndex = LastIFrame(frameInfos)
  /\ scanStage = "called"
  /\ scanResult = <<>>

\* Block layouts of a history longer than MAX_SCAN_FRAMES: the first, the
\* second and the last frame vary freely, the frames between share one layout
LongLayouts(n, first, second, middle, last) ==
  [k \in 1..n |-> IF k = 1 THEN first
                  ELSE IF k = 2 THEN second
                  ELSE IF k = n THEN last
                  ELSE middle]

\* frame 0 is a keyframe; the current group starts at frame origin - 1
LongTypes(n, origin) ==
  [k \in 1..n |-> IF k = 1 \/ k = origin THEN "I" ELSE "P"]

MiddleLayouts == { <<>>, << MakeBlock(OptColorA, << <<10, 0>> >>) >> }

ScanLongInit ==
  /\ \E n \in 1..LongScanFrames :
       \E first \in ScanLayouts : \E second \in ScanLayouts :
         \E middle \in MiddleLayouts : \E last \in ScanLayouts :
           \E origin \in {1, 2, n} \cap (1..n) :
             frameInfos = ScanHistory(LongLayouts(n, first, second, middle, last),
                                      LongTypes(n, origin))
  /\ currentIFrameIndex = LastIFrame(frameInfos)
  /\ scanStage = "called"
  /\ scanResult = <<>>

ScanRun ==
  /\ scanStage = "called"
  /\ scanResult' = scan3DCoveredBlocks(frameInfos, currentIFrameIndex)
  /\ scanStage' = "returned"
  /\ UNCHANGED <<frameInfos, currentIFrameIndex>>
  /\ UNCHANGED notScan

ScanNext == ScanRun

ScanIdle ==
  /\ frameInfos = <<>>
  /\ currentIFrameIndex = -1
  /\ scanStage = "idle"
  /\ scanResult = <<>>

(***************************************************************************)
(* processVideoFrames                                                      *)
(***************************************************************************)
\* Math.max() of no arguments; absorbing under + and below every integer
NegInfinity == -1000000

JSAdd(a, b) == IF a = NegInfinity \/ b = NegInfinity THEN NegInfinity ELSE a + b

\* Math.max(...blocks.map((b) => b.zIndex))
MaxZIn(blocks) ==
  IF blocks = <<>> THEN NegInfinity
  ELSE SetMax({blocks[k].zIndex : k \in 1..Len(blocks)})

\* blocks.forEach((block) => { block.zIndex += maxZIndexUsed })
OffsetZIndex(blocks, offset) ==
  [k \in 1..Len(blocks) |-> [blocks[k] EXCEPT !.zIndex = JSAdd(@, offset)]]

\* maxZIndexUsed after a keyframe: no guard for an empty Block list
NextMaxZKeyframe(blocks, maxZ) == JSAdd(MaxZIn(blocks), 1)

\* maxZIndexUsed after a Delta frame: guarded by blocks.length > 0
NextMaxZDelta(blocks, maxZ) ==
  IF Len(blocks) > 0 THEN JSAdd(MaxZIn(blocks), 1) ELSE maxZ

\* processAndGroupImage(path, {sortBy: 'area'}) on a decoded image
ProcessAndGroup(img) ==
  localSearchOptimization(
    AssignZIndex(SortBlocks("area", SegmentImage(img), 1, <<>>)), MaxIterations)

\* createDiffImageFile followed by its decoding: transparent everywhere but
\* on the changed pixels; a pixel written with alpha 0 reads back as 0,0,0,0
DiffImage(width, height, diffPixels) ==
  [w |-> width, h |-> height,
   data |-> [k \in 1..(width * height) |->
               LET c == <<(k - 1) % width, (k - 1) \div width>>
               IN  IF c \in DOMAIN diffPixels /\ diffPixels[c].a # 0
                   THEN diffPixels[c] ELSE Px(0, 0, 0, 0)]]

\* generateMinecraftFunction: the commands of the written file, in file order
RECURSIVE SortByZAsc(_, _, _)
InsertByZAsc(sorted, b) ==
  LET pos == Cardinality({k \in 1..Len(sorted) : sorted[k].zIndex - b.zIndex <= 0})
  IN  SubSeq(sorted, 1, pos) \o <<b>> \o SubSeq(sorted, pos + 1, Len(sorted))

SortByZAsc(blocks, k, acc) ==
  IF k > Len(blocks) THEN acc
  ELSE SortByZAsc(blocks, k + 1, InsertByZAsc(acc, blocks[k]))

\* the clear command put at the head of the file: always the frame's own tag
ClearCommandOwnTag(tag, frameId, clearPreviousFrames) ==
  << [cmd |-> "kill_tag", tag |-> tag] >>

\* the clear command put at the head of the file (frameId is always given)
ClearCommand(tag, frameId, clearPreviousFrames) ==
  IF clearPreviousFrames
  THEN << [cmd |-> "kill_frames_up_to", frameId |-> frameId - 1] >>
  ELSE << [cmd |-> "kill_tag", tag |-> tag] >>

generateMinecraftFunction(blocks, tag, frameId, clearPreviousFrames) ==
  LET sortedBlocks == SortByZAsc(blocks, 1, <<>>)
      summons == [k \in 1..Len(sortedBlocks) |->
                    [cmd   |-> "summon",
                     tags  |-> {tag, Append(tag, k - 1), <<"video_entity">>},
                     block |-> sortedBlocks[k]]]
      score == << [cmd |-> "set_frame_id", tag |-> tag, frameId |-> frameId] >>
  IN  ClearCommand(tag, frameId, clearPreviousFrames) \o summons \o score

\* the `.then` continuation of a Delta frame's write: prepend the kill command
WithCoveredRemoved(content, coveredEntities) ==
  IF Len(coveredEntities) > 0
  THEN << [cmd |-> "kill_tags", tags |-> SeqRange(coveredEntities)] >> \o content
  ELSE content

\* diffRatio >= diffThreshold on fractions with positive denominators
RatioAtLeast(ratio, threshold) ==
  ratio.num * threshold.den >= threshold.num * ratio.den

\* decoded 2x1 frames: fully transparent, uniform, two-coloured
VidImages ==
  {[w |-> 2, h |-> 1, data |-> d] :
     d \in {<<Px(0, 0, 0, 0), Px(0, 0, 0, 0)>>, <<White, White>>, <<White, Black>>,
            <<Black, Black>>, <<Black, White>>}}

VidColorThreshold == 10

\* loop index i: the frames decoded so far are frames 0..i-1
VidIndex == Len(frameInfos)

isIFrameNoSchedule(i) == i = 0 \/ lastIFramePath = -1

isIFrame(i) == i = 0 \/ i % iFrameInterval = 0 \/ lastIFramePath = -1

VidInit ==
  /\ frames = <<>>
  /\ frameInfos = <<>>
  /\ lastIFramePath = -1
  /\ prevFramePath = -1
  /\ currentIFrameIndex = -1
  /\ maxZIndexUsed = 0
  /\ mcfunctionPromises = {}
  /\ files = <<>>
  /\ iframeImageCache = <<>>
  /\ iFrameInterval \in {2, 3}
  /\ diffThreshold \in {[num |-> 1, den |-> 2], [num |-> 3, den |-> 4]}
  /\ diffMode \in {"iframe", "previous"}
  /\ colorThreshold = VidColorThreshold
  /\ vidPc = "loop"

\* scheduled keyframe, up to the await of processAndGroupImage
VidIFrameBegin ==
  /\ vidPc = "loop"
  /\ VidIndex < MaxFrames
  /\ isIFrame(VidIndex)
  /\ \E img \in VidImages : frames' = Append(frames, img)
  /\ currentIFrameIndex' = Len(frameInfos)
  /\ lastIFramePath' = VidIndex
  /\ vidPc' = "iframe"
  /\ UNCHANGED <<frameInfos, prevFramePath, maxZIndexUsed, iFrameInterval,
                 diffThreshold, diffMode, iframeImageCache, mcfunctionPromises,
                 files, colorThreshold>>
  /\ UNCHANGED notVid

\* scheduled keyframe, from the Blocks to the end of the loop body
VidIFrameEnd ==
  /\ vidPc = "iframe"
  /\ \E i \in {VidIndex} :
     \E blocks \in {OffsetZIndex(ProcessAndGroup(frames[i + 1]), maxZIndexUsed)} :
         /\ maxZIndexUsed' = NextMaxZKeyframe(blocks, maxZIndexUsed)
         /\ files' = Append(files,
                       generateMinecraftFunction(blocks, <<"video_frame", i>>, i, i > 0))
         /\ frameInfos' = Append(frameInfos,
                            FrameInfo(i, "I", [num |-> 1, den |-> 1], blocks))
         /\ prevFramePath' = i
  /\ vidPc' = "loop"
  /\ UNCHANGED <<frames, currentIFrameIndex, lastIFramePath, iFrameInterval,
                 diffThreshold, diffMode, iframeImageCache, mcfunctionPromises,
                 colorThreshold>>
  /\ UNCHANGED notVid

CompareFramePathPrevious == prevFramePath

\* the reference of frame i's diff
CompareFramePath == IF diffMode = "iframe" THEN lastIFramePath ELSE prevFramePath

\* the reference buffer generateDiffImage compares against
ReferenceData(path) ==
  IF diffMode = "iframe" /\ path \in DOMAIN iframeImageCache
  THEN iframeImageCache[path]
  ELSE frames[path + 1]

CacheAfterDiff(path) ==
  IF diffMode = "iframe" /\ path \notin DOMAIN iframeImageCache
  THEN [q \in (DOMAIN iframeImageCache) \cup {path} |->
          IF q = path THEN frames[path + 1] ELSE iframeImageCache[q]]
  ELSE iframeImageCache

\* frame promoted to keyframe: diffRatio >= diffThreshold
VidPromotedIFrame ==
  /\ vidPc = "loop"
  /\ VidIndex < MaxFrames
  /\ ~isIFrame(VidIndex)
  /\ \E img \in VidImages :
     \E i \in {VidIndex} :
     \E d \in {generateDiffImage(ReferenceData(CompareFramePath), img, colorThreshold)} :
     \E blocks \in {OffsetZIndex(ProcessAndGroup(img), maxZIndexUsed)} :
           /\ RatioAtLeast(d.diffRatio, diffThreshold)
           /\ frames' = Append(frames, img)
           /\ maxZIndexUsed' = NextMaxZKeyframe(blocks, maxZIndexUsed)
           /\ currentIFrameIndex' = Len(frameInfos)
           /\ lastIFramePath' = i
           /\ files' = Append(files,
                         generateMinecraftFunction(blocks, <<"video_frame", i>>, i, TRUE))
           /\ frameInfos' = Append(frameInfos, FrameInfo(i, "I", d.diffRatio, blocks))
           /\ prevFramePath' = i
  /\ iframeImageCache' = CacheAfterDiff(CompareFramePath)
  /\ UNCHANGED <<vidPc, iFrameInterval, diffThreshold, diffMode,
                 mcfunctionPromises, colorThreshold>>
  /\ UNCHANGED notVid

\* Delta frame: Blocks of the sparse diff image, write started, continuation
\* pending
VidPFrame ==
  /\ vidPc = "loop"
  /\ VidIndex < MaxFrames
  /\ ~isIFrame(VidIndex)
  /\ \E img \in VidImages :
     \E i \in {VidIndex} :
     \E d \in {generateDiffImage(ReferenceData(CompareFramePath), img, colorThreshold)} :
     \E blocks \in {OffsetZIndex(
                       ProcessAndGroup(DiffImage(d.width, d.height, d.diffPixels)),
                       maxZIndexUsed)} :
           /\ ~RatioAtLeast(d.diffRatio, diffThreshold)
           /\ frames' = Append(frames, img)
           /\ maxZIndexUsed' = NextMaxZDelta(blocks, maxZIndexUsed)
           /\ files' = Append(files,
                         generateMinecraftFunction(blocks, <<"video_frame", i, "diff">>,
                                                   i, FALSE))
           /\ mcfunctionPromises' = mcfunctionPromises \cup {i}
           /\ frameInfos' = Append(frameInfos, FrameInfo(i, "P", d.diffRatio, blocks))
           /\ prevFramePath' = i
  /\ iframeImageCache' = CacheAfterDiff(CompareFramePath)
  /\ UNCHANGED <<vidPc, currentIFrameIndex, lastIFramePath, iFrameInterval,
                 diffThreshold, diffMode, colorThreshold>>
  /\ UNCHANGED notVid

\* a Delta frame's write has completed: its continuation scans the history as
\* it is now and rewrites the file
VidWriteDone(k) ==
  /\ k \in mcfunctionPromises
  /\ vidPc \in {"loop", "iframe", "joining"}
  /\ files' = [files EXCEPT ![k + 1] =
                 WithCoveredRemoved(@, scan3DCoveredBlocks(frameInfos, currentIFrameIndex))]
  /\ mcfunctionPromises' = mcfunctionPromises \ {k}
  /\ UNCHANGED <<frames, frameInfos, vidPc, currentIFrameIndex, lastIFramePath,
                 prevFramePath, maxZIndexUsed, iFrameInterval, diffThreshold,
                 diffMode, iframeImageCache, colorThreshold>>
  /\ UNCHANGED notVid

\* i reaches framePaths.length: await Promise.all(mcfunctionPromises)
VidLoopEnd ==
  /\ vidPc = "loop"
  /\ vidPc' = "joining"
  /\ UNCHANGED <<frames, frameInfos, currentIFrameIndex, lastIFramePath,
                 prevFramePath, maxZIndexUsed, iFrameInterval, diffThreshold,
                 diffMode, iframeImageCache, mcfunctionPromises, files,
                 colorThreshold>>
  /\ UNCHANGED notVid

VidReturn ==
  /\ vidPc = "joining"
  /\ mcfunctionPromises = {}
  /\ vidPc' = "returned"
  /\ UNCHANGED <<frames, frameInfos, currentIFrameIndex, lastIFramePath,
                 prevFramePath, maxZIndexUsed, iFrameInterval, diffThreshold,
                 diffMode, iframeImageCache, mcfunctionPromises, files,
                 colorThreshold>>
  /\ UNCHANGED notVid

\* generateVideoFromFile after processVideoFrames has returned: control
\* functions, statistics, then clearIFrameCache()
VidRunComplete ==
  /\ vidPc = "returned"
  /\ iframeImageCache' = <<>>
  /\ vidPc' = "ended"
  /\ UNCHANGED <<frames, frameInfos, currentIFrameIndex, lastIFramePath,
                 prevFramePath, maxZIndexUsed, iFrameInterval, diffThreshold,
                 diffMode, mcfunctionPromises, files, colorThreshold>>
  /\ UNCHANGED notVid

\* frame i cannot be read or decoded: loadImage throws inside the loop body
\* and the rejection leaves generateVideoFromFile, which has no handler.  In a
\* diff the reference has been loaded (and cached) before the frame is.
VidDecodeFailure ==
  /\ vidPc = "loop"
  /\ VidIndex < MaxFrames
  /\ iframeImageCache' = IF isIFrame(VidIndex) THEN iframeImageCache
                         ELSE CacheAfterDiff(CompareFramePath)
  /\ vidPc' = "aborted"
  /\ UNCHANGED <<frames, frameInfos, currentIFrameIndex, lastIFramePath,
                 prevFramePath, maxZIndexUsed, iFrameInterval, diffThreshold,
                 diffMode, mcfunctionPromises, files, colorThreshold>>
  /\ UNCHANGED notVid

\* a pending write rejects: Promise.all rejects, or a write of the run's tail
\* (control functions, video_stats.json) throws
VidWriteFailure ==
  /\ \/ vidPc = "joining" /\ mcfunctionPromises # {}
     \/ vidPc = "returned"
  /\ vidPc' = "aborted"
  /\ UNCHANGED <<frames, frameInfos, currentIFrameIndex, lastIFramePath,
                 prevFramePath, maxZIndexUsed, iFrameInterval, diffThreshold,
                 diffMode, iframeImageCache, mcfunctionPromises, files,
                 colorThreshold>>
  /\ UNCHANGED notVid

VidNext ==
  \/ VidIFrameBegin
  \/ VidIFrameEnd
  \/ VidPromotedIFrame
  \/ VidPFrame
  \/ \E k \in 0..(MaxFrames - 1) : VidWriteDone(k)
  \/ VidLoopEnd
  \/ VidReturn
  \/ VidRunComplete
  \/ VidDecodeFailure
  \/ VidWriteFailure

VidIdle ==
  /\ frames = <<>>
  /\ vidPc = "idle"
  /\ lastIFramePath = -1
  /\ prevFramePath = -1
  /\ maxZIndexUsed = 0
  /\ iFrameInterval = 1
  /\ diffThreshold = [num |-> 1, den |-> 4]
  /\ diffMode = "iframe"
  /\ iframeImageCache = <<>>
  /\ mcfunctionPromises = {}
  /\ files = <<>>

(***************************************************************************)
(* ImageWorkerPool                                                         *)
(***************************************************************************)
\* a worker that is processing nothing
NoTask == [id |-> 0, job |-> 0]

Unsettled == [state |-> "pending", from |-> 0, calls |-> 0]

\* promise of a job after resolve(blocks) / reject(error) carrying the
\* outcome computed for the task of job `from'
Settle(pr, how, from) ==
  IF pr.state = "pending"
  THEN [state |-> how, from |-> from, calls |-> pr.calls + 1]
  ELSE [pr EXCEPT !.calls = @ + 1]

\* taskQueue.findIndex((t) => t.task.id === id); 0 stands for -1
FindIndexById(queue, id) ==
  IF \E k \in 1..Len(queue) : queue[k].id = id
  THEN SetMin({k \in 1..Len(queue) : queue[k].id = id})
  ELSE 0

\* the undispatched entry submitted last
FindUndispatchedLast(queue) ==
  IF \E k \in 1..Len(queue) : queue[k].worker = 0
  THEN SetMax({k \in 1..Len(queue) : queue[k].worker = 0})
  ELSE 0

\* taskQueue.find((t) => !('worker' in t)); 0 stands for undefined
FindUndispatched(queue) ==
  IF \E k \in 1..Len(queue) : queue[k].worker = 0
  THEN SetMin({k \in 1..Len(queue) : queue[k].worker = 0})
  ELSE 0

\* taskQueue.splice(taskIndex, 1)
Splice(queue, i) ==
  [k \in 1..(Len(queue) - 1) |-> IF k < i THEN queue[k] ELSE queue[k + 1]]

\* processNextTask on the given idle stack, queue and worker inboxes
processNextTask(avail, queue, run) ==
  IF Len(queue) = 0 \/ Len(avail) = 0
  THEN [avail |-> avail, queue |-> queue, run |-> run]
  ELSE LET worker == avail[Len(avail)]
           popped == SubSeq(avail, 1, Len(avail) - 1)
           t == FindUndispatched(queue)
       IN  IF t # 0
           THEN [avail |-> popped,
                 queue |-> [queue EXCEPT ![t].worker = worker],
                 run   |-> [run EXCEPT ![worker] =
                              [id |-> queue[t].id, job |-> queue[t].job]]]
           ELSE [avail |-> popped, queue |-> queue, run |-> run]

PoolInit ==
  /\ workers = 1..PoolSize
  /\ availableWorkers = [k \in 1..PoolSize |-> k]
  /\ taskQueue = <<>>
  /\ running = [w \in 1..PoolSize |-> NoTask]
  /\ promises = <<>>
  /\ submitted = 0

\* processImage: the job's task id is Date.now() + Math.random(), which two
\* jobs can share
PoolProcessImage ==
  /\ submitted < MaxJobs
  /\ \E id \in 1..NumIds :
       LET job == submitted + 1
           n == processNextTask(availableWorkers,
                                Append(taskQueue, [job |-> job, id |-> id, worker |-> 0]),
                                running)
       IN  /\ availableWorkers' = n.avail
           /\ taskQueue' = n.queue
           /\ running' = n.run
  /\ promises' = Append(promises, Unsettled)
  /\ submitted' = submitted + 1
  /\ UNCHANGED workers
  /\ UNCHANGED notPool

\* the worker posts its result and the pool's message listener handles it
PoolOnMessage(w, how) ==
  /\ w \in workers
  /\ running[w] # NoTask
  /\ LET id == running[w].id
         taskIndex == FindIndexById(taskQueue, id)
         queue1 == IF taskIndex # 0 THEN Splice(taskQueue, taskIndex) ELSE taskQueue
         n == processNextTask(Append(availableWorkers, w), queue1,
                              [running EXCEPT ![w] = NoTask])
     IN  /\ promises' = IF taskIndex # 0
                        THEN [promises EXCEPT ![taskQueue[taskIndex].job] =
                                Settle(@, how, running[w].job)]
                        ELSE promises
         /\ availableWorkers' = n.avail
         /\ taskQueue' = n.queue
         /\ running' = n.run
  /\ UNCHANGED <<workers, submitted>>
  /\ UNCHANGED notPool

PoolWorkerResult(w) == PoolOnMessage(w, "resolved")

PoolWorkerError(w) == PoolOnMessage(w, "rejected")

\* terminate(): the workers stop (nothing they were computing is delivered)
\* and the three lists are emptied
PoolTerminate ==
  /\ workers # {}
  /\ workers' = {}
  /\ availableWorkers' = <<>>
  /\ taskQueue' = <<>>
  /\ running' = [w \in 1..PoolSize |-> NoTask]
  /\ UNCHANGED <<promises, submitted>>
  /\ UNCHANGED notPool

getActiveWorkers == PoolSize - Len(availableWorkers)

PoolNext ==
  \/ PoolProcessImage
  \/ \E w \in 1..PoolSize : PoolWorkerResult(w)
  \/ \E w \in 1..PoolSize : PoolWorkerError(w)
  \/ PoolTerminate

PoolIdle ==
  /\ workers = {}
  /\ availableWorkers = <<>>
  /\ taskQueue = <<>>
  /\ running = <<>>
  /\ promises = <<>>
  /\ submitted = 0

(***************************************************************************)
(* processVP9VideoWithChunkMetadata over processImageWithCombinedLines-    *)
(* AndJsonOutput.  A frame is VP9Width pixels wide; the text command of a  *)
(* chunk (changeString) is kept as the chunk's pixels in order, one full   *)
(* block character each; positions and lineWidth are left out.             *)
(***************************************************************************)
MaxRows == 4

MaxGroupLineCount == 4

MaxVP9Frames == 2

VP9Width == 1

VP9Images(h) ==
  {[w |-> VP9Width, h |-> h, data |-> d] : d \in [1..(VP9Width * h) -> {White, Black}]}

PixelsByLine(img) ==
  [y \in 1..img.h |-> [x \in 1..img.w |-> img.data[((y - 1) * img.w) + x]]]

\* Math.ceil(a / b) for a >= 0, b >= 1
CeilDiv(a, b) == (a + b - 1) \div b

\* groupedPixels.flat() of lines[from..to]
RECURSIVE FlatLines(_, _, _)
FlatLines(lines, from, to) ==
  IF from > to THEN <<>> ELSE lines[from] \o FlatLines(lines, from + 1, to)

\* group g (0-based) holds lines g*n .. g*n + n - 1, as far as they exist
pixelsGroupedByMultipleLines(lines, n) ==
  [g \in 1..CeilDiv(Len(lines), n) |->
     FlatLines(lines, ((g - 1) * n) + 1,
               IF g * n <= Len(lines) THEN g * n ELSE Len(lines))]

GroupsOf(grouped) ==
  [i \in 1..Len(grouped) |-> [changeString |-> grouped[i], indicator |-> i - 1]]

processImageWithCombinedLinesAndJsonOutput(img, n) ==
  [groupedLines |-> GroupsOf(pixelsGroupedByMultipleLines(PixelsByLine(img), n)),
   width |-> img.w,
   height |-> img.h]

\* every chunk gets floor(height / totalChunks), the last one the rest
ChunkHeight(result, chunkIndex) ==
  LET totalChunks == Len(result.groupedLines)
      baseChunkHeight == result.height \div totalChunks
      remainingHeight == result.height - (baseChunkHeight * (totalChunks - 1))
  IN  IF chunkIndex = totalChunks - 1 THEN remainingHeight ELSE baseChunkHeight

FrameMetadataOf(frameIndex, result) ==
  [frameIndex |-> frameIndex,
   width |-> result.width,
   height |-> result.height,
   chunks |-> [c \in 1..Len(result.groupedLines) |->
                 [frameIndex |-> frameIndex,
                  chunkIndex |-> c - 1,
                  width |-> result.width,
                  height |-> ChunkHeight(result, c - 1),
                  indicator |-> result.groupedLines[c].indicator]]]

NoImageOutput == [groupedLines |-> <<>>, width |-> 0, height |-> 0]

VP9Init ==
  /\ vp9Height \in 1..MaxRows
  /\ groupLineCount \in 1..MaxGroupLineCount
  /\ vp9Pc = "loop"
  /\ imageOutput = NoImageOutput
  /\ allFramesMetadata = <<>>

\* loop body up to the await: the next decoded frame is grouped
VP9ProcessImage ==
  /\ vp9Pc = "loop"
  /\ Len(allFramesMetadata) < MaxVP9Frames
  /\ \E img \in VP9Images(vp9Height) :
       imageOutput' = processImageWithCombinedLinesAndJsonOutput(img, groupLineCount)
  /\ vp9Pc' = "grouped"
  /\ UNCHANGED <<vp9Height, groupLineCount, allFramesMetadata>>
  /\ UNCHANGED notVP9

\* rest of the loop body: the frame's metadata is built and pushed
VP9PushMetadata ==
  /\ vp9Pc = "grouped"
  /\ allFramesMetadata' =
       Append(allFramesMetadata, FrameMetadataOf(Len(allFramesMetadata), imageOutput))
  /\ vp9Pc' = "loop"
  /\ UNCHANGED <<vp9Height, groupLineCount, imageOutput>>
  /\ UNCHANGED notVP9

\* after the last frame: frames_metadata.json is written, the list returned
VP9Return ==
  /\ vp9Pc = "loop"
  /\ vp9Pc' = "returned"
  /\ UNCHANGED <<vp9Height, groupLineCount, imageOutput, allFramesMetadata>>
  /\ UNCHANGED notVP9

VP9Next == VP9ProcessImage \/ VP9PushMetadata \/ VP9Return

VP9Idle ==
  /\ vp9Height = 0
  /\ groupLineCount = 1
  /\ vp9Pc = "idle"
  /\ imageOutput = NoImageOutput
  /\ allFramesMetadata = <<>>

(***************************************************************************)
(* generateVideoControlFunctions: the scripts setup_video, play_video,     *)
(* run_video, run_video_frame and reset_video, run by the game.  The       *)
(* scoreboard players and the storage value are the variables;             *)
(* executedFrames lists the frame scripts run so far.                      *)
(***************************************************************************)
MaxPlayFrames == 5

\* the written scripts, before any of them is run
PlayInit ==
  /\ \E n \in 1..MaxPlayFrames : lastFrameIndex = n - 1
  /\ isFillGaps \in BOOLEAN
  /\ current_frame = 0
  /\ last_frame = 0
  /\ video_playing = 0
  /\ dataFrameIndex = 0
  /\ playPc = "written"
  /\ frameCalls = 0
  /\ executedFrames = <<>>

setup_video ==
  /\ playPc = "written"
  /\ current_frame' = 0
  /\ last_frame' = lastFrameIndex
  /\ video_playing' = 0
  /\ dataFrameIndex' = 0
  /\ playPc' = "setup"
  /\ UNCHANGED <<lastFrameIndex, isFillGaps, frameCalls, executedFrames>>
  /\ UNCHANGED notPlay

\* sets video_playing and calls run_video
play_video ==
  /\ playPc = "setup"
  /\ video_playing' = 1
  /\ playPc' = "run_video"
  /\ UNCHANGED <<lastFrameIndex, isFillGaps, current_frame, last_frame, dataFrameIndex,
                 frameCalls, executedFrames>>
  /\ UNCHANGED notPlay

\* video_playing after the first line of run_video
PlayingAfterCheck == IF current_frame >= last_frame THEN 0 ELSE video_playing

\* run_video, first two lines, playback over: return run function reset_video
run_video_reset ==
  /\ playPc = "run_video"
  /\ PlayingAfterCheck = 0
  /\ current_frame' = 0
  /\ video_playing' = 0
  /\ dataFrameIndex' = 0
  /\ playPc' = "reset"
  /\ UNCHANGED <<lastFrameIndex, isFillGaps, last_frame, frameCalls, executedFrames>>
  /\ UNCHANGED notPlay

\* run_video, still playing: add 1 to current_frame and store it as dataFrameIndex
run_video_advance ==
  /\ playPc = "run_video"
  /\ PlayingAfterCheck # 0
  /\ current_frame' = current_frame + 1
  /\ dataFrameIndex' = current_frame + 1
  /\ frameCalls' = 0
  /\ playPc' = "frame"
  /\ UNCHANGED <<lastFrameIndex, isFillGaps, last_frame, video_playing, executedFrames>>
  /\ UNCHANGED notPlay

\* the calls of run_video_frame in one pass of run_video
FrameCallsPerPass == IF isFillGaps THEN 4 ELSE 1

\* run_video_frame: function video:frames/frame_$(frameIndex)
run_video_frame ==
  /\ playPc = "frame"
  /\ frameCalls < FrameCallsPerPass
  /\ executedFrames' = Append(executedFrames, dataFrameIndex)
  /\ frameCalls' = frameCalls + 1
  /\ UNCHANGED <<lastFrameIndex, isFillGaps, current_frame, last_frame, video_playing,
                 dataFrameIndex, playPc>>
  /\ UNCHANGED notPlay

\* schedule function video:run_video: the next pass starts some ticks later
run_video_schedule ==
  /\ playPc = "frame"
  /\ frameCalls = FrameCallsPerPass
  /\ playPc' = "run_video"
  /\ UNCHANGED <<lastFrameIndex, isFillGaps, current_frame, last_frame, video_playing,
                 dataFrameIndex, frameCalls, executedFrames>>
  /\ UNCHANGED notPlay

PlayNext ==
  \/ setup_video
  \/ play_video
  \/ run_video_reset
  \/ run_video_advance
  \/ run_video_frame
  \/ run_video_schedule

PlayIdle ==
  /\ lastFrameIndex = 0
  /\ isFillGaps = FALSE
  /\ current_frame = 0
  /\ last_frame = 0
  /\ video_playing = 0
  /\ dataFrameIndex = 0
  /\ playPc = "idle"
  /\ frameCalls = 0
  /\ executedFrames = <<>>

(***************************************************************************)
(* generateDiffImage with its options and the module-level                 *)
(* iframeImageCache                                                        *)
(***************************************************************************)
NumPaths == 2

CacheW == 2

\* the frame files: CacheW x CacheW images of opaque black and white pixels
CacheImages ==
  {[w |-> CacheW, h |-> CacheW, data |-> px] :
     px \in [1..(CacheW * CacheW) -> {White, Black}]}

\* resizeFactor as a fraction
ResizeFactors == {[num |-> 1, den |-> 1], [num |-> 1, den |-> 2]}

\* Math.floor(size * resizeFactor)
Resized(size, resizeFactor) == (size * resizeFactor.num) \div resizeFactor.den

\* loadImage, then drawImage into a canvas of the resized dimensions and
\* getImageData
DecodeResized(img, resizeFactor) ==
  [w |-> Resized(img.w, resizeFactor),
   h |-> Resized(img.h, resizeFactor),
   data |-> drawImage(img, Resized(img.w, resizeFactor), Resized(img.h, resizeFactor))]

NoCall ==
  [prevImagePath |-> -1, currentImagePath |-> -1,
   resizeFactor |-> [num |-> 0, den |-> 1], colorThreshold |-> 0, useCache |-> FALSE]

\* cachedPrevImage is defined: useCache and the path has an entry
HasCachedPrevImage(call) ==
  call.useCache /\ call.prevImagePath \in DOMAIN iframeImageCache

\* the reference buffer with its width and height
PrevDataOf(call) ==
  IF HasCachedPrevImage(call)
  THEN iframeImageCache[call.prevImagePath]
  ELSE DecodeResized(imageFiles[call.prevImagePath + 1], call.resizeFactor)

\* iframeImageCache.set(prevImagePath, ...) after a decode with useCache
CacheAfterCall(call) ==
  IF call.useCache /\ ~HasCachedPrevImage(call)
  THEN [q \in (DOMAIN iframeImageCache) \cup {call.prevImagePath} |->
          IF q = call.prevImagePath
          THEN DecodeResized(imageFiles[call.prevImagePath + 1], call.resizeFactor)
          ELSE iframeImageCache[q]]
  ELSE iframeImageCache

\* the process starts with an empty cache (VidIdle) and no call made
CacheInit ==
  /\ imageFiles \in [1..NumPaths -> CacheImages]
  /\ diffCall = NoCall

\* one call generateDiffImage(prevImagePath, currentImagePath, options)
generateDiffImageCall ==
  /\ \E prevImagePath \in 0..(NumPaths - 1) : \E currentImagePath \in 0..(NumPaths - 1) :
       \E resizeFactor \in ResizeFactors : \E useCache \in BOOLEAN :
         \E call \in {[prevImagePath |-> prevImagePath,
                       currentImagePath |-> currentImagePath,
                       resizeFactor |-> resizeFactor,
                       colorThreshold |-> 10,
                       useCache |-> useCache]} :
           /\ diffCall' = call
           /\ diffResult' = generateDiffImage(PrevDataOf(call),
                                              imageFiles[currentImagePath + 1],
                                              call.colorThreshold)
           /\ iframeImageCache' = CacheAfterCall(call)
  /\ diffStage' = "returned"
  /\ UNCHANGED imageFiles
  /\ UNCHANGED notCache

\* iframeImageCache.clear()
clearIFrameCache ==
  /\ iframeImageCache' = <<>>
  /\ UNCHANGED <<imageFiles, diffCall, diffStage, diffResult>>
  /\ UNCHANGED notCache

CacheNext == generateDiffImageCall \/ clearIFrameCache

CacheIdle ==
  /\ imageFiles = <<>>
  /\ diffCall = NoCall

(***************************************************************************)
(* Specifications                                                          *)
(***************************************************************************)
InitPG == PGInit /\ OptIdle /\ DiffIdle /\ ScanIdle /\ VidIdle /\ PoolIdle /\ VP9Idle
          /\ PlayIdle /\ CacheIdle

SpecPG == InitPG /\ [][PGNext]_vars

InitOpt == OptInit /\ PGIdle /\ DiffIdle /\ ScanIdle /\ VidIdle /\ PoolIdle /\ VP9Idle
          /\ PlayIdle /\ CacheIdle

SpecOpt == InitOpt /\ [][OptNext]_vars

\* localSearchOptimization is one synchronous call: its loops keep running
FairSpecOpt == InitOpt /\ [][OptNext]_vars /\ WF_vars(OptNext)

InitDiff == DiffInit /\ PGIdle /\ OptIdle /\ ScanIdle /\ VidIdle /\ PoolIdle /\ VP9Idle
          /\ PlayIdle /\ CacheIdle

SpecDiff == InitDiff /\ [][DiffNext]_vars

InitScan == ScanInit /\ PGIdle /\ OptIdle /\ DiffIdle /\ VidIdle /\ PoolIdle /\ VP9Idle
            /\ PlayIdle /\ CacheIdle

SpecScan == InitScan /\ [][ScanNext]_vars

InitScanLong == ScanLongInit /\ PGIdle /\ OptIdle /\ DiffIdle /\ VidIdle /\ PoolIdle
                /\ VP9Idle /\ PlayIdle /\ CacheIdle

SpecScanLong == InitScanLong /\ [][ScanNext]_vars

\* processVideoFrames owns colorThreshold, frameInfos and currentIFrameIndex
InitVideo ==
  /\ VidInit
  /\ PGIdle /\ OptIdle /\ PoolIdle /\ VP9Idle /\ PlayIdle /\ CacheIdle
  /\ prevImage = [w |-> 0, h |-> 0, data |-> <<>>]
  /\ currentImage = [w |-> 0, h |-> 0, data |-> <<>>]
  /\ diffStage = "idle"
  /\ diffResult = [width |-> 0, height |-> 0, diffPixels |-> <<>>,
                   diffRatio |-> [num |-> 0, den |-> 0]]
  /\ scanStage = "idle"
  /\ scanResult = <<>>

SpecVideo == InitVideo /\ [][VidNext]_vars

\* a run called with colorThreshold: 0 and the default diffMode (IFRAME)
InitVideoZero ==
  /\ frames = <<>>
  /\ frameInfos = <<>>
  /\ lastIFramePath = -1
  /\ prevFramePath = -1
  /\ currentIFrameIndex = -1
  /\ maxZIndexUsed = 0
  /\ mcfunctionPromises = {}
  /\ files = <<>>
  /\ iframeImageCache = <<>>
  /\ iFrameInterval \in {2, 3}
  /\ diffThreshold \in {[num |-> 1, den |-> 2], [num |-> 3, den |-> 4]}
  /\ diffMode = "iframe"
  /\ colorThreshold = 0
  /\ vidPc = "loop"
  /\ PGIdle /\ OptIdle /\ PoolIdle /\ VP9Idle /\ PlayIdle /\ CacheIdle
  /\ prevImage = [w |-> 0, h |-> 0, data |-> <<>>]
  /\ currentImage = [w |-> 0, h |-> 0, data |-> <<>>]
  /\ diffStage = "idle"
  /\ diffResult = [width |-> 0, height |-> 0, diffPixels |-> <<>>,
                   diffRatio |-> [num |-> 0, den |-> 0]]
  /\ scanStage = "idle"
  /\ scanResult = <<>>

SpecVideoZero == InitVideoZero /\ [][VidNext]_vars

InitPool == PoolInit /\ PGIdle /\ OptIdle /\ DiffIdle /\ ScanIdle /\ VidIdle /\ VP9Idle
            /\ PlayIdle /\ CacheIdle

SpecPool == InitPool /\ [][PoolNext]_vars

\* every worker that holds a task eventually posts its message
PoolFairness ==
  \A w \in 1..PoolSize : WF_vars(PoolWorkerResult(w) \/ PoolWorkerError(w))

FairSpecPool == InitPool /\ [][PoolNext]_vars /\ PoolFairness

InitVP9 ==
  VP9Init /\ PGIdle /\ OptIdle /\ DiffIdle /\ ScanIdle /\ VidIdle /\ PoolIdle /\ PlayIdle /\ CacheIdle

SpecVP9 == InitVP9 /\ [][VP9Next]_vars

InitPlay ==
  PlayInit /\ PGIdle /\ OptIdle /\ DiffIdle /\ ScanIdle /\ VidIdle /\ PoolIdle /\ VP9Idle
  /\ CacheIdle

SpecPlay == InitPlay /\ [][PlayNext]_vars

InitCache ==
  CacheInit /\ PGIdle /\ OptIdle /\ DiffIdle /\ ScanIdle /\ VidIdle /\ PoolIdle /\ VP9Idle
  /\ PlayIdle

SpecCache == InitCache /\ [][CacheNext]_vars

(***************************************************************************)
(* Properties of localSearchOptimization                                   *)
(***************************************************************************)
UnionPixels(blocks) == UNION {PixelSet(blocks[k]) : k \in 1..Len(blocks)}

\* C5: at every point of localSearchOptimization (after each merge step and at
\* the end) the Block count is no greater than the input's and no greater than
\* before the step, the union of pixel coordinates is the input's and the sum
\* of areas is exactly the input's.
C5_MergePreservesPixels ==
  /\ [](optPhase # "idle" =>
          /\ Len(currentBlocks) <= Len(initialBlocks)
          /\ UnionPixels(currentBlocks) = UnionPixels(initialBlocks)
          /\ SumArea(currentBlocks) = SumArea(initialBlocks))
  /\ [][Len(currentBlocks') <= Len(currentBlocks)]_vars

\* the optimizer has returned after merging at least twice
C5_Witness ==
  /\ optPhase = "done"
  /\ greedyMerges >= 2
  /\ Len(currentBlocks) < Len(initialBlocks)

\* C15: localSearchOptimization returns for every Block list and every
\* maxIterations >= 0; each pass of the Phase-1 loop either merges one pair and
\* lowers the Block count by exactly one, or ends the phase with the list
\* untouched; Phase 1 merges at most (initial count - 1) times (never, for an
\* empty list); Phase 2 runs at most maxIterations iterations.
C15_OptimizerTerminates ==
  /\ <>(optPhase = "done")
  /\ [](/\ iter <= maxIterations
        /\ Len(initialBlocks) >= 1 => greedyMerges <= Len(initialBlocks) - 1
        /\ Len(initialBlocks) = 0 => greedyMerges = 0
        /\ greedyMerges = Len(initialBlocks) - Len(currentBlocks))
  /\ [][optPhase = "tried" =>
          \/ /\ optPhase' = "greedy"
             /\ greedyMerges' = greedyMerges + 1
             /\ Len(currentBlocks') = Len(currentBlocks) - 1
          \/ /\ optPhase' = "local"
             /\ greedyMerges' = greedyMerges
             /\ currentBlocks' = currentBlocks]_vars
  /\ [][optPhase = "local" =>
          \/ iter < maxIterations /\ iter' = iter + 1 /\ optPhase' = "local"
          \/ iter >= maxIterations /\ optPhase' = "done"]_vars

\* the call has returned after Phase 1 merged (initial count - 1) times and
\* Phase 2 ran maxIterations > 0 iterations
C15_Witness ==
  /\ optPhase = "done"
  /\ Len(initialBlocks) >= 3
  /\ greedyMerges = Len(initialBlocks) - 1
  /\ maxIterations >= 1
  /\ iter = maxIterations

\* two coordinates one step apart to the north, south, east or west
Touching(p, q) == AbsDiff(p[1], q[1]) + AbsDiff(p[2], q[2]) = 1

Adjacent(a, b) == \E p \in PixelSet(a) : \E q \in PixelSet(b) : Touching(p, q)

MergedAsUnion(a, b, m) ==
  LET u == PixelSet(a) \cup PixelSet(b)
      xs == {p[1] : p \in u}
      ys == {p[2] : p \in u}
  IN  /\ PixelSet(m) = u
      /\ m.area = Cardinality(u)
      /\ m.minX = SetMin(xs) /\ m.maxX = SetMax(xs)
      /\ m.minY = SetMin(ys) /\ m.maxY = SetMax(ys)
      /\ m.width = m.maxX - m.minX + 1
      /\ m.height = m.maxY - m.minY + 1
      /\ m.color = a.color
      /\ m.zIndex = SetMin({a.zIndex, b.zIndex})

\* C14: for any two Blocks of the list, canMergeBlocks answers true exactly
\* when they have the same colour and a pixel of one is a north, south, east or
\* west neighbour of a pixel of the other, and answers the same for both
\* argument orders; mergeBlocks of a mergeable pair has the union of the two
\* pixel sets, area = number of distinct coordinates of the union, the min/max
\* bounding box with width = maxX-minX+1 and height = maxY-minY+1, the colour
\* unchanged and the smaller zIndex; two touching 1x1 Blocks give area 2.
C14_MergeableAndMerged ==
  \A j \in 1..Len(currentBlocks) : \A k \in 1..Len(currentBlocks) :
     j # k =>
       \E a \in {currentBlocks[j]} : \E b \in {currentBlocks[k]} :
          /\ canMergeBlocks(a, b) <=> (a.color = b.color /\ Adjacent(a, b))
          /\ canMergeBlocks(a, b) <=> canMergeBlocks(b, a)
          /\ canMergeBlocks(a, b) => MergedAsUnion(a, b, mergeBlocks(a, b))
          /\ (a.area = 1 /\ b.area = 1 /\ a.color = b.color /\ Adjacent(a, b))
               => /\ canMergeBlocks(a, b)
                  /\ mergeBlocks(a, b).area = 2

\* two touching 1x1 Blocks of one colour were the input and the first pass of
\* Phase 1 merged them into a Block of area 2; the input also held a pair of
\* the same colour that touches only diagonally
C14_Witness ==
  /\ greedyMerges = 1
  /\ \E j \in 1..Len(initialBlocks) : \E k \in 1..Len(initialBlocks) :
       /\ j < k
       /\ initialBlocks[j].area = 1 /\ initialBlocks[k].area = 1
       /\ initialBlocks[j].color = initialBlocks[k].color
       /\ Adjacent(initialBlocks[j], initialBlocks[k])
       /\ \E m \in 1..Len(currentBlocks) :
            /\ currentBlocks[m].area = 2
            /\ PixelSet(currentBlocks[m]) =
                 PixelSet(initialBlocks[j]) \cup PixelSet(initialBlocks[k])
  /\ \E j \in 1..Len(initialBlocks) : \E k \in 1..Len(initialBlocks) :
       /\ j # k
       /\ initialBlocks[j].color = initialBlocks[k].color
       /\ ~Adjacent(initialBlocks[j], initialBlocks[k])

(***************************************************************************)
(* Properties of generateDiffImage                                         *)
(***************************************************************************)
SameDimensions == prevImage.w = currentImage.w /\ prevImage.h = currentImage.h

DiffCoords == {<<x, y>> : x \in 0..(prevImage.w - 1), y \in 0..(prevImage.h - 1)}

PrevAt(c) == prevImage.data[(c[2] * prevImage.w) + c[1] + 1]

CurAt(c) == currentImage.data[(c[2] * currentImage.w) + c[1] + 1]

ChangedCoords ==
  {c \in DiffCoords :
     \/ AbsDiff(PrevAt(c).r, CurAt(c).r) > colorThreshold
     \/ AbsDiff(PrevAt(c).g, CurAt(c).g) > colorThreshold
     \/ AbsDiff(PrevAt(c).b, CurAt(c).b) > colorThreshold}

\* C9: the diff map holds exactly the coordinates whose largest RGB channel
\* difference is strictly above colorThreshold (alpha not compared), each
\* mapped to the candidate's pixel; diffRatio = changed / (width*height) and
\* lies in [0,1]; identical frames give an empty diff; one white pixel turned
\* black at threshold 10 gives a diff of size 1 holding the black pixel.
C9_DiffIsExactChangedSet ==
  (diffStage = "returned" /\ SameDimensions) =>
    /\ DOMAIN diffResult.diffPixels = ChangedCoords
    /\ \A c \in DOMAIN diffResult.diffPixels : diffResult.diffPixels[c] = CurAt(c)
    /\ diffResult.diffRatio.num = Cardinality(ChangedCoords)
    /\ diffResult.diffRatio.den = prevImage.w * prevImage.h
    /\ 0 <= diffResult.diffRatio.num
    /\ diffResult.diffRatio.num <= diffResult.diffRatio.den
    /\ (prevImage = currentImage =>
          diffResult.diffPixels = <<>> /\ diffResult.diffRatio.num = 0)
    /\ \A c \in DiffCoords :
         (/\ colorThreshold = 10
          /\ PrevAt(c) = White /\ CurAt(c) = Black
          /\ \A d \in DiffCoords \ {c} : PrevAt(d) = CurAt(d))
         => /\ DOMAIN diffResult.diffPixels = {c}
            /\ diffResult.diffPixels[c] = Black
            /\ diffResult.diffRatio.num = 1

\* one pixel white -> black at threshold 10, another pixel differing only in
\* alpha
C9_Witness ==
  /\ diffStage = "returned"
  /\ SameDimensions
  /\ colorThreshold = 10
  /\ \E c \in DiffCoords : \E d \in DiffCoords :
       /\ PrevAt(c) = White /\ CurAt(c) = Black
       /\ PrevAt(d) = White /\ CurAt(d) = WhiteA0
       /\ DOMAIN diffResult.diffPixels = {c}

(***************************************************************************)
(* Properties of scan3DCoveredBlocks                                       *)
(***************************************************************************)
WindowItems ==
  SeqRange(CollectBlocks(FramesToScan(frameInfos, currentIFrameIndex), 1, <<>>))

\* C2: every Block of the scanned window whose pixel set is contained in the
\* pixel set of another Block of the window with strictly greater zIndex has
\* its tag in the returned covered set, wherever the bounding boxes lie
\* relative to the grid cells.
C2_EveryCoveredBlockReported ==
  scanStage = "returned" /\ Len(SliceFrom(frameInfos, currentIFrameIndex)) >= 2 =>
    \A a \in WindowItems : \A b \in WindowItems :
      (PixelSet(a.block) \subseteq PixelSet(b.block) /\ b.zIndex > a.zIndex)
        => a.tag \in SeqRange(scanResult)

\* a's pixels all lie inside b's bounding box
InsideBox(a, b) ==
  \A c \in PixelSet(a) : /\ b.minX <= c[1] /\ c[1] <= b.maxX
                         /\ b.minY <= c[2] /\ c[2] <= b.maxY

\* C13: every returned tag belongs to a Block of the window whose pixel
\* coordinates are all contained in one single other Block of the window with
\* strictly greater zIndex, registered in a grid cell the Block's bounding box
\* spans; box overlap, partial overlap or coverage by a union mark nothing.
C13_OnlyCoveredBlocksReported ==
  scanStage = "returned" =>
    \A t \in SeqRange(scanResult) :
      \E a \in WindowItems :
        /\ a.tag = t
        /\ \E b \in WindowItems :
             /\ b.zIndex > a.zIndex
             /\ PixelSet(a.block) \subseteq PixelSet(b.block)
             /\ <<b.block.minX \div 10, b.block.minY \div 10>> \in
                  {<<gx, gy>> : gx \in (a.block.minX \div 10)..(a.block.maxX \div 10),
                                gy \in (a.block.minY \div 10)..(a.block.maxY \div 10)}

\* a tag was returned, and the window also holds a Block lying inside the
\* bounding box of a later Block of its own grid cell that does not cover it
C13_Witness ==
  /\ scanStage = "returned"
  /\ scanResult # <<>>
  /\ \E a \in WindowItems : \E b \in WindowItems :
       /\ b.zIndex > a.zIndex
       /\ InsideBox(a.block, b.block)
       /\ b.block.minX \div 10 = a.block.minX \div 10
       /\ ~(PixelSet(a.block) \subseteq PixelSet(b.block))

\* C23: every Block of the scanned window that carries a returned tag has all
\* of its pixels inside one Block of the window with strictly greater zIndex,
\* so removing the entities of the returned tags removes nothing visible.
C23_ReportedTagsHideNothingVisible ==
  scanStage = "returned" =>
    \A a \in WindowItems :
      a.tag \in SeqRange(scanResult) =>
        \E b \in WindowItems :
          /\ b.zIndex > a.zIndex
          /\ PixelSet(a.block) \subseteq PixelSet(b.block)

\* 1-based positions of the frames the scan may look at: at or after the
\* group origin and among the MAX_SCAN_FRAMES last frames of the history
ScanWindow ==
  {k \in 1..Len(frameInfos) :
     /\ k - 1 >= currentIFrameIndex
     /\ k > Len(frameInfos) - 10}

GroupSize == Len(frameInfos) - currentIFrameIndex

\* the frames of the window as a history of their own
WindowHistory ==
  SubSeq(frameInfos, SetMin(ScanWindow \cup {Len(frameInfos) + 1}), Len(frameInfos))

\* C29: scan3DCoveredBlocks looks only at the Blocks of the frames at or
\* after the keyframe-group origin and, among them, the 10 most recent: it
\* returns nothing when the group holds fewer than 2 frames, every returned
\* tag is the tag of a window frame one of whose Blocks lies inside a
\* higher-zIndex Block of the window, the result is the one computed from the
\* window frames alone, no tag is returned twice, and the frame history and
\* the origin are left as they were.
C29_ScanWindowOnly ==
  /\ [](scanStage = "returned" =>
          /\ GroupSize < 2 => scanResult = <<>>
          /\ \A t \in SeqRange(scanResult) :
               \E k \in ScanWindow :
                 /\ t = FrameTag(frameInfos[k])
                 /\ \E m \in 1..Len(frameInfos[k].blocks) :
                      \E k2 \in ScanWindow :
                        \E m2 \in 1..Len(frameInfos[k2].blocks) :
                          /\ frameInfos[k2].blocks[m2].zIndex > frameInfos[k].blocks[m].zIndex
                          /\ PixelSet(frameInfos[k].blocks[m]) \subseteq
                               PixelSet(frameInfos[k2].blocks[m2])
          /\ GroupSize >= 2 =>
               SeqRange(scanResult) = SeqRange(scan3DCoveredBlocks(WindowHistory, 0))
          /\ \A i, j \in 1..Len(scanResult) : scanResult[i] = scanResult[j] => i = j)
  /\ [][scanStage = "called" =>
          /\ frameInfos' = frameInfos
          /\ currentIFrameIndex' = currentIFrameIndex]_vars

\* a group of more than 10 frames was scanned: a Block of a frame of the
\* group older than the window lies inside a Block of a window frame and its
\* tag was not returned, while the tag of a window frame was
C29_Witness ==
  /\ scanStage = "returned"
  /\ GroupSize > 10
  /\ scanResult # <<>>
  /\ \E k \in (currentIFrameIndex + 1)..(Len(frameInfos) - 10) :
       /\ FrameTag(frameInfos[k]) \notin SeqRange(scanResult)
       /\ \E m \in 1..Len(frameInfos[k].blocks) :
            \E k2 \in ScanWindow :
              \E m2 \in 1..Len(frameInfos[k2].blocks) :
                /\ GridKey([block |-> frameInfos[k2].blocks[m2]]) =
                     GridKey([block |-> frameInfos[k].blocks[m]])
                /\ PixelSet(frameInfos[k].blocks[m]) \subseteq
                     PixelSet(frameInfos[k2].blocks[m2])

(***************************************************************************)
(* Properties of processVideoFrames                                        *)
(***************************************************************************)
\* C1: every Block of a later frame has a zIndex strictly greater than every
\* Block of every earlier frame, and maxZIndexUsed is always a finite integer
\* that never decreases (frames with an empty Block list included).
C1_ZIndexStrictlyIncreasing ==
  /\ [](/\ maxZIndexUsed # NegInfinity
        /\ \A k1 \in 1..Len(frameInfos) : \A k2 \in 1..Len(frameInfos) :
             k1 < k2 =>
               \A m1 \in 1..Len(frameInfos[k1].blocks) :
                 \A m2 \in 1..Len(frameInfos[k2].blocks) :
                   /\ frameInfos[k2].blocks[m2].zIndex # NegInfinity
                   /\ frameInfos[k2].blocks[m2].zIndex
                        > frameInfos[k1].blocks[m1].zIndex)
  /\ [][maxZIndexUsed' >= maxZIndexUsed]_vars

\* index of the frame that governs the diff of frame i (i > 0)
GoverningReference(i) ==
  IF diffMode = "iframe"
  THEN SetMax({j \in 0..(i - 1) : frameInfos[j + 1].frameType = "I"})
  ELSE i - 1

FreshDiffRatio(i) ==
  generateDiffImage(frames[GoverningReference(i) + 1], frames[i + 1],
                    colorThreshold).diffRatio

AllTaggedBlocks ==
  UNION {{<<k, m>> : m \in 1..Len(frameInfos[k].blocks)} : k \in 1..Len(frameInfos)}

\* C10: no two distinct Blocks of the sequence are identified by the same tag,
\* so a tag reported as covered designates exactly one Block.
C10_TagsIdentifyOneBlock ==
  \A p \in AllTaggedBlocks : \A q \in AllTaggedBlocks :
    p # q => FrameTag(frameInfos[p[1]]) # FrameTag(frameInfos[q[1]])

\* generateVideoFromFile: frameInfos.reduce((sum, f) => sum + f.coveredEntities.length, 0)
RECURSIVE totalCoveredEntities(_)
totalCoveredEntities(infos) ==
  IF infos = <<>> THEN 0
  ELSE Len(Head(infos).coveredEntities) + totalCoveredEntities(Tail(infos))

\* the tags of the removal command at the head of a frame's output, if any
RemovedTags(content) ==
  IF content # <<>> /\ content[1].cmd = "kill_tags" THEN content[1].tags ELSE {}

RECURSIVE TotalRemovedTags(_)
TotalRemovedTags(fs) ==
  IF fs = <<>> THEN 0
  ELSE Cardinality(RemovedTags(Head(fs))) + TotalRemovedTags(Tail(fs))

\* C11: in the returned FrameInfos, coveredEntities of every frame is the set
\* of tags written as the removal command into that frame's output, and
\* totalCoveredEntities counts the removed tags.
C11_CoveredEntitiesRecorded ==
  vidPc = "returned" =>
    /\ \A k \in 1..Len(frameInfos) :
         SeqRange(frameInfos[k].coveredEntities) = RemovedTags(files[k])
    /\ totalCoveredEntities(frameInfos) = TotalRemovedTags(files)

(***************************************************************************)
(* The consumer: the entities left after running the frames' scripts in   *)
(* order.  An entity is its tag list, its frame_id score (-1: not set)     *)
(* and the frame that summoned it.                                         *)
(***************************************************************************)
ExecCommand(world, c, frame) ==
  CASE c.cmd = "summon" ->
         world \cup {[tags |-> c.tags, frame_id |-> -1, frame |-> frame]}
    [] c.cmd = "set_frame_id" ->
         {IF c.tag \in e.tags THEN [e EXCEPT !.frame_id = c.frameId] ELSE e : e \in world}
    [] c.cmd = "kill_frames_up_to" ->
         {e \in world : ~(/\ <<"video_entity">> \in e.tags
                          /\ e.frame_id # -1
                          /\ e.frame_id <= c.frameId)}
    [] c.cmd = "kill_tag" -> {e \in world : c.tag \notin e.tags}
    [] c.cmd = "kill_tags" -> {e \in world : ~(c.tags \subseteq e.tags)}

RECURSIVE ExecScript(_, _, _, _)
ExecScript(world, content, upTo, frame) ==
  IF upTo = 0 THEN world
  ELSE ExecCommand(ExecScript(world, content, upTo - 1, frame), content[upTo], frame)

\* the world after playing the scripts of frames 0..k-1
RECURSIVE WorldAfter(_)
WorldAfter(k) ==
  IF k = 0 THEN {}
  ELSE ExecScript(WorldAfter(k - 1), files[k], Len(files[k]), k - 1)

\* number of commands of a script before its first summon
BeforeFirstSummon(content) ==
  IF \E n \in 1..Len(content) : content[n].cmd = "summon"
  THEN SetMin({n \in 1..Len(content) : content[n].cmd = "summon"}) - 1
  ELSE Len(content)

\* C12: the script of every Keyframe with index > 0 has removed every entity
\* drawn by earlier frames before it summons its own regions; the script of a
\* Delta frame removes no entity drawn by another frame, except entities
\* carrying a tag of its covered-tag removal command.
C12_KeyframeClearsDeltaLayers ==
  \A k \in 2..Len(files) :
    IF frameInfos[k].frameType = "I"
    THEN ExecScript(WorldAfter(k - 1), files[k], BeforeFirstSummon(files[k]), k - 1) = {}
    ELSE \A e \in WorldAfter(k - 1) :
           e \notin WorldAfter(k) => e.tags \cap RemovedTags(files[k]) # {}

\* a promoted Keyframe comes after a Delta frame that drew a region, and an
\* earlier Delta frame's script carries a covered-tag removal
C12_Witness ==
  /\ Len(files) >= 3
  /\ \E k \in 3..Len(files) :
       /\ frameInfos[k].frameType = "I"
       /\ (k - 1) % iFrameInterval # 0
       /\ frameInfos[k].blocks # <<>>
       /\ WorldAfter(k - 1) # {}
       /\ \E j \in 2..(k - 1) :
            /\ frameInfos[j].frameType = "P"
            /\ RemovedTags(files[j]) # {}

ChangedAt(t) == DOMAIN generateDiffImage(prevImage, currentImage, t).diffPixels

RatioAt(t) == generateDiffImage(prevImage, currentImage, t).diffRatio

\* C18: for the pair of frames of a call and any two thresholds t1 <= t2, the
\* changed pixels at t2 are among the changed pixels at t1 and diffRatio at t1
\* is at least diffRatio at t2; in particular for the threshold of the call
\* and its returned diff.
C18_ThresholdMonotone ==
  diffStage = "returned" =>
    /\ \A t1 \in ColorThresholds : \A t2 \in ColorThresholds :
         t1 <= t2 =>
           /\ ChangedAt(t2) \subseteq ChangedAt(t1)
           /\ RatioAtLeast(RatioAt(t1), RatioAt(t2))
    /\ \A t \in ColorThresholds :
         /\ t <= colorThreshold =>
              /\ DOMAIN diffResult.diffPixels \subseteq ChangedAt(t)
              /\ RatioAtLeast(RatioAt(t), diffResult.diffRatio)
         /\ colorThreshold <= t =>
              /\ ChangedAt(t) \subseteq DOMAIN diffResult.diffPixels
              /\ RatioAtLeast(diffResult.diffRatio, RatioAt(t))

\* a call at threshold 10 returned; raising the threshold to 11 loses a changed
\* pixel and keeps another
C18_Witness ==
  /\ diffStage = "returned"
  /\ colorThreshold = 10
  /\ ChangedAt(11) # {}
  /\ ChangedAt(11) # DOMAIN diffResult.diffPixels
  /\ diffResult.diffRatio.num > RatioAt(11).num

\* the rows grouped into chunk c of the frame just processed
RowsGrouped(c) == Len(imageOutput.groupedLines[c].changeString) \div imageOutput.width

RECURSIVE SumChunkHeights(_)
SumChunkHeights(chunks) ==
  IF chunks = <<>> THEN 0 ELSE Head(chunks).height + SumChunkHeights(Tail(chunks))

\* C19: in the metadata of the frame just pushed, every chunk's height is the
\* number of pixel rows grouped into that chunk (groupLineCount for every
\* chunk but the last, the remaining rows for the last), and the heights add
\* up to the frame height, for every height and every groupLineCount >= 1.
C19_ChunkHeightIsRowsGrouped ==
  (vp9Pc = "loop" /\ allFramesMetadata # <<>>) =>
    \E fm \in {allFramesMetadata[Len(allFramesMetadata)]} :
       /\ Len(fm.chunks) = Len(imageOutput.groupedLines)
       /\ \A c \in 1..Len(fm.chunks) :
            /\ fm.chunks[c].height = RowsGrouped(c)
            /\ c < Len(fm.chunks) => fm.chunks[c].height = groupLineCount
            /\ c = Len(fm.chunks) =>
                 fm.chunks[c].height = fm.height - (groupLineCount * (c - 1))
       /\ SumChunkHeights(fm.chunks) = fm.height

\* colour and pixel set of every Block, zIndex aside
BlockShapes(bs) == {<<bs[k].color, PixelSet(bs[k])>> : k \in 1..Len(bs)}

DiffShapes(d) == BlockShapes(ProcessAndGroup(DiffImage(d.width, d.height, d.diffPixels)))

\* the Blocks and diffRatio of frame i are those of its diff against frame ref
DeltaAgainst(info, ref, i) ==
  \E d \in {generateDiffImage(frames[ref + 1], frames[i + 1], colorThreshold)} :
     /\ info.diffRatio = d.diffRatio
     /\ info.frameType = "P" => BlockShapes(info.blocks) = DiffShapes(d)

LastKeyframe == SetMax({j \in 0..(Len(frameInfos) - 1) : frameInfos[j + 1].frameType = "I"})

\* the frame recorded last, if it is not a scheduled Keyframe, has the
\* diffRatio (and, as a Delta, the Blocks) of its diff against the most recent
\* Keyframe before it in IFRAME mode, against the frame before it in PREVIOUS
\* mode; promoted, it has the Blocks of its full image
LastRecordedFollowsReference ==
  \A k \in {Len(frameInfos)} \ {0, 1} :
     (k - 1) % iFrameInterval # 0 =>
       /\ DeltaAgainst(frameInfos[k],
                       IF diffMode = "iframe"
                       THEN SetMax({j \in 0..(k - 2) : frameInfos[j + 1].frameType = "I"})
                       ELSE k - 2,
                       k - 1)
       /\ frameInfos[k].frameType = "I" =>
            BlockShapes(frameInfos[k].blocks) = BlockShapes(ProcessAndGroup(frames[k]))

\* C20: a frame that is not a scheduled Keyframe is diffed against the most
\* recent Keyframe before it (scheduled or promoted) in IFRAME mode and against
\* the frame just before it in PREVIOUS mode; a promoted frame carries the
\* Blocks of its full image; between frames the IFRAME reference and the
\* origin of the scanned group are the most recent Keyframe, promoted or not.
\* The first part is stated of the frame recorded last: frameInfos and frames
\* only grow, and every frame is the last one after its iteration.
C20_ReferenceAndPromotion ==
  /\ []LastRecordedFollowsReference
  /\ [][/\ Len(frameInfos') >= Len(frameInfos)
         /\ SubSeq(frameInfos', 1, Len(frameInfos)) = frameInfos
         /\ Len(frames') >= Len(frames)
         /\ SubSeq(frames', 1, Len(frames)) = frames]_vars
  /\ []((vidPc = "loop" /\ frameInfos # <<>>) =>
          /\ lastIFramePath = LastKeyframe
          /\ currentIFrameIndex = LastKeyframe
          /\ prevFramePath = Len(frameInfos) - 1)

\* IFRAME mode, interval 3: frame 1 was promoted and its full image differs
\* from its diff; frame 2 is a Delta whose diff against frame 1 is not its diff
\* against frame 0
C20_Witness ==
  /\ diffMode = "iframe"
  /\ iFrameInterval = 3
  /\ Len(frameInfos) = 3
  /\ frameInfos[2].frameType = "I"
  /\ frameInfos[3].frameType = "P"
  /\ currentIFrameIndex = 1
  /\ BlockShapes(frameInfos[2].blocks)
       # DiffShapes(generateDiffImage(frames[1], frames[2], colorThreshold))
  /\ DiffShapes(generateDiffImage(frames[1], frames[3], colorThreshold))
       # BlockShapes(frameInfos[3].blocks)

\* C17: a call of generateDiffImage whose reference and candidate differ in
\* width or height ends in a DimensionMismatch failure and yields no diff map
\* and no diffRatio.
C17_DimensionMismatchFails ==
  (diffStage # "called" /\ ~SameDimensions) =>
    /\ diffStage = "failed"
    /\ diffResult.diffPixels = <<>>
    /\ diffResult.diffRatio.den = 0

\* C16: whenever a run has ended, by completing or by aborting on the first
\* unhandled error, iframeImageCache is empty; and during a run the cache only
\* changes in a step of the sequential frame loop (or by the final clear).
C16_CacheEmptyAtRunEnd ==
  /\ [](vidPc \in {"ended", "aborted"} => iframeImageCache = <<>>)
  /\ [][iframeImageCache' # iframeImageCache =>
          vidPc = "loop" \/ vidPc' = "ended"]_vars

\* index of the Keyframe that opened the group frame k was classified in
OriginAt(k) == SetMax({j \in 0..k : frameInfos[j + 1].frameType = "I"})

\* the scan of frame k's continuation on the history as it was when frame k
\* had just been classified and appended
PrefixCovered(k) == scan3DCoveredBlocks(SubSeq(frameInfos, 1, k + 1), OriginAt(k))

\* C21: the covered-tag set written into the output of Delta frame k is the
\* scan of frames 0..k with the group origin current at frame k's
\* classification, whenever the deferred continuation runs, and names no tag
\* of a frame with index >= k.
C21_CoveredSetFixedAtClassification ==
  \A k \in 0..(Len(files) - 1) :
    (frameInfos[k + 1].frameType = "P" /\ k \notin mcfunctionPromises) =>
      /\ RemovedTags(files[k + 1]) = SeqRange(PrefixCovered(k))
      /\ \A t \in RemovedTags(files[k + 1]) : t[2] < k

FullyOpaque(img) == \A k \in 1..Len(img.data) : img.data[k].a = 255

\* the Blocks drawn by frames from..to (0-based), the Keyframe's first
DrawnBlocks(from, to) ==
  UNION {SeqRange(frameInfos[j + 1].blocks) : j \in from..to}

\* colour on top at coordinate c after the frames from..to have been applied:
\* that of the Block with the greatest zIndex holding c; <<>> if none holds it
TopColour(c, from, to) ==
  LET over == {b \in DrawnBlocks(from, to) : c \in PixelSet(b)}
  IN  IF over = {} THEN <<>>
      ELSE (CHOOSE b \in over : \A o \in over : o.zIndex <= b.zIndex).color

\* C24: IFRAME mode, colorThreshold 0, fully opaque frames: after the Keyframe
\* of a group and its Delta frames up to frame k have been applied in index
\* order, the colour on top at every pixel is the colour of that pixel in
\* frame k, also for a pixel an earlier Delta changed and frame k restored.
C24_CompositeShowsLatestFrame ==
  (diffMode = "iframe" /\ colorThreshold = 0 /\ vidPc = "loop") =>
    \A k \in 0..(Len(frameInfos) - 1) :
      (\A j \in OriginAt(k)..k : FullyOpaque(frames[j + 1])) =>
        \A x \in 0..(frames[k + 1].w - 1) : \A y \in 0..(frames[k + 1].h - 1) :
          TopColour(<<x, y>>, OriginAt(k), k)
            = ColorKey(frames[k + 1].data[(y * frames[k + 1].w) + x + 1])

\* C25: when playback started by setup_video and play_video has stopped and
\* reset_video has run, the frame scripts executed are frame_0, frame_1, ...,
\* frame_(n-1), each exactly once, in increasing index order (n =
\* lastFrameIndex + 1 >= 1 frames).
C25_EveryFramePlayedOnceInOrder ==
  playPc = "reset" =>
    executedFrames = [k \in 1..(lastFrameIndex + 1) |-> k - 1]

\* same colour and a pixel of one next to a pixel of the other
Mergeable(a, b) == a.color = b.color /\ Adjacent(a, b)

\* the input Blocks joined to those of S by a chain of mergeable pairs
RECURSIVE JoinedTo(_)
JoinedTo(S) ==
  LET T == S \cup {k \in 1..Len(initialBlocks) :
                     \E j \in S : Mergeable(initialBlocks[j], initialBlocks[k])}
  IN  IF T = S THEN S ELSE JoinedTo(T)

\* colour and pixels of every connected component of the input
InputComponents ==
  {<<initialBlocks[j].color,
     UNION {PixelSet(initialBlocks[k]) : k \in JoinedTo({j})}>> :
     j \in 1..Len(initialBlocks)}

\* C27: when localSearchOptimization has returned, no two Blocks of the result
\* have the same colour and touch, and the result holds exactly one Block per
\* connected component of the input Blocks under the mergeable relation, with
\* the component's pixels (so the order of the merges does not show).
C27_ResultIsComponentsOfInput ==
  optPhase = "done" =>
    /\ \A j \in 1..Len(currentBlocks) : \A k \in 1..Len(currentBlocks) :
         j # k => ~Mergeable(currentBlocks[j], currentBlocks[k])
    /\ BlockShapes(currentBlocks) = InputComponents
    /\ Len(currentBlocks) = Cardinality(InputComponents)

\* three Blocks of one colour, two of them joined only through the third,
\* returned as one Block without any Phase-2 iteration
C27_Witness ==
  /\ optPhase = "done"
  /\ maxIterations = 0
  /\ Len(initialBlocks) = 3
  /\ Len(currentBlocks) = 1
  /\ \E j \in 1..3 : \E k \in 1..3 :
       j # k /\ ~Adjacent(initialBlocks[j], initialBlocks[k])

(***************************************************************************)
(* Properties of ImageWorkerPool                                           *)
(***************************************************************************)
\* C7: every submitted job is settled exactly once, with the outcome computed
\* for that very job, and is never left pending forever, under every
\* interleaving of submissions, worker replies, worker failures and terminate.
C7_EveryJobSettledOnce ==
  /\ [](\A j \in 1..Len(promises) :
          /\ promises[j].calls <= 1
          /\ promises[j].state # "pending" => promises[j].from = j)
  /\ \A j \in 1..MaxJobs :
       (Len(promises) >= j /\ promises[j].state = "pending")
         ~> (Len(promises) >= j /\ promises[j].state # "pending")

\* C8: when a worker reports a failure for a job, that job's promise and no
\* other is rejected, the worker is idle again (or already runs the next
\* job), and every other queued or in-flight job stays in the queue.
C8_FailureRejectsOnlyThatJob ==
  [][\A w \in 1..PoolSize :
       PoolWorkerError(w) =>
         LET j == running[w].job
         IN  /\ promises'[j].state = "rejected"
             /\ promises'[j].from = j
             /\ \A j2 \in (1..Len(promises)) \ {j} : promises'[j2] = promises[j2]
             /\ (w \in SeqRange(availableWorkers') \/ running'[w] # NoTask)
             /\ \A k \in 1..Len(taskQueue) :
                  taskQueue[k].job # j =>
                    \E m \in 1..Len(taskQueue') : taskQueue'[m].job = taskQueue[k].job
    ]_vars

\* the workers that hold a dispatched job they have not replied to
BusyWorkers == {w \in workers : running[w] # NoTask}

TimesAvailable(w) ==
  Cardinality({k \in 1..Len(availableWorkers) : availableWorkers[k] = w})

\* C22: before terminate(), every worker is either listed exactly once in
\* availableWorkers or executing one dispatched job (never both, never
\* neither); getActiveWorkers() is the number of jobs in flight; and no
\* undispatched job stays queued while a worker is executing nothing.
C22_WorkersAvailableOrBusy ==
  workers # {} =>
    /\ \A w \in workers :
         \/ TimesAvailable(w) = 1 /\ running[w] = NoTask
         \/ TimesAvailable(w) = 0 /\ running[w] # NoTask
    /\ getActiveWorkers = Cardinality(BusyWorkers)
    /\ FindUndispatched(taskQueue) # 0 => BusyWorkers = workers

\* the jobs of the queue that no worker has been sent
UndispatchedJobs(queue) ==
  {queue[k].job : k \in {m \in 1..Len(queue) : queue[m].worker = 0}}

\* C26: a job is sent to a worker only while no earlier-submitted job is
\* undispatched; a job is sent once, to one worker (it was undispatched until
\* then, and no other worker is handed it); a worker is sent a job only when
\* it holds none or in the handling of its own reply; so no two workers hold
\* the same job and at most poolSize jobs are in flight.
C26_FifoOneJobPerWorker ==
  /\ [](workers # {} =>
          /\ Cardinality(BusyWorkers) <= PoolSize
          /\ \A w1 \in workers : \A w2 \in workers :
               (w1 # w2 /\ running[w1] # NoTask) => running[w1].job # running[w2].job)
  /\ [][\A w \in 1..PoolSize :
          (running'[w] # NoTask /\ running'[w] # running[w]) =>
            /\ running[w] = NoTask \/ PoolWorkerResult(w) \/ PoolWorkerError(w)
            /\ \/ running'[w].job \in UndispatchedJobs(taskQueue)
               \/ running'[w].job = submitted + 1 /\ submitted' = submitted + 1
            /\ \A j \in UndispatchedJobs(taskQueue) : running'[w].job <= j
            /\ \A j \in UndispatchedJobs(taskQueue') : running'[w].job < j
            /\ \A w2 \in (1..PoolSize) \ {w} : running'[w2].job # running'[w].job
     ]_vars

\* poolSize jobs have been sent out, one to each worker, and two later jobs
\* wait undispatched behind them for the next reply
C26_Witness ==
  /\ workers # {}
  /\ BusyWorkers = workers
  /\ Cardinality({running[w].job : w \in workers}) = PoolSize
  /\ Cardinality(UndispatchedJobs(taskQueue)) >= 2
(***************************************************************************)
(* Properties of the segmentation step                                     *)
(***************************************************************************)
ImgCoords == {<<x, y>> : x \in 0..(image.w - 1), y \in 0..(image.h - 1)}

ImgPixel(c) == image.data[(c[2] * image.w) + c[1] + 1]

OpaqueCoords == {c \in ImgCoords : ImgPixel(c).a # 0}

SameRGB(p, q) == p.r = q.r /\ p.g = q.g /\ p.b = q.b

\* coordinates reachable from the set S by N/S/E/W steps over non-transparent
\* pixels with the RGB value of pixel c0
RECURSIVE Reach(_, _)
Reach(c0, S) ==
  LET T == S \cup {d \in OpaqueCoords :
                     /\ SameRGB(ImgPixel(d), ImgPixel(c0))
                     /\ \E s \in S : (s[1] - d[1]) * (s[1] - d[1])
                                     + (s[2] - d[2]) * (s[2] - d[2]) = 1}
  IN  IF T = S THEN S ELSE Reach(c0, T)

BlocksHolding(c) == {k \in 1..Len(pgBlocks) : c \in PixelSet(pgBlocks[k])}

\* C3: the segmenter's Blocks partition the non-transparent pixels: pairwise
\* disjoint, no alpha-0 pixel, every pixel with alpha # 0 exactly once, area
\* sum = number of non-transparent pixels, and no such pixel gives no Block.
C3_SegmentationPartitions ==
  pgStage = "segmented" =>
    /\ \A c \in OpaqueCoords : Cardinality(BlocksHolding(c)) = 1
    /\ \A k \in 1..Len(pgBlocks) :
         /\ PixelSet(pgBlocks[k]) \subseteq OpaqueCoords
         /\ Cardinality(PixelSet(pgBlocks[k])) = Len(pgBlocks[k].pixels)
         /\ pgBlocks[k].area = Len(pgBlocks[k].pixels)
    /\ SumArea(pgBlocks) = Cardinality(OpaqueCoords)
    /\ (OpaqueCoords = {} => pgBlocks = <<>>)

C3_Witness ==
  /\ pgStage = "segmented"
  /\ Len(pgBlocks) >= 2
  /\ \E c \in ImgCoords : ImgPixel(c).a = 0
  /\ \E c \in ImgCoords : ImgPixel(c).a = 128

\* C4: two non-transparent pixels share a Block iff they have the same RGB
\* colour and are joined by an N/S/E/W path over non-transparent pixels of
\* that colour (so diagonal contact does not join, and Blocks are 4-connected).
C4_BlocksAreMaximalComponents ==
  pgStage = "segmented" =>
    \A c \in OpaqueCoords : \A d \in OpaqueCoords :
      (BlocksHolding(c) \cap BlocksHolding(d) # {}) <=> (d \in Reach(c, {c}))

\* same colour touching only diagonally, split into two Blocks
C4_Witness ==
  /\ pgStage = "segmented"
  /\ image.w >= 2 /\ image.h >= 2
  /\ SameRGB(ImgPixel(<<0, 0>>), ImgPixel(<<1, 1>>))
  /\ ImgPixel(<<0, 0>>).a # 0 /\ ImgPixel(<<1, 1>>).a # 0
  /\ BlocksHolding(<<0, 0>>) \cap BlocksHolding(<<1, 1>>) = {}
  /\ ImgPixel(<<1, 0>>).a # 0
  /\ ~SameRGB(ImgPixel(<<1, 0>>), ImgPixel(<<0, 0>>))

Unranked(b) == [b EXCEPT !.zIndex = 0]

\* place of Block b in the list `before', zIndex aside
PlaceIn(before, b) == CHOOSE i \in 1..Len(before) : Unranked(before[i]) = Unranked(b)

\* (minY, minX) of a is not after that of b
YXNotAfter(a, b) == a.minY < b.minY \/ (a.minY = b.minY /\ a.minX <= b.minX)

\* C28: the segmenter's Blocks hold no mergeable pair, so the optimizer inside
\* processAndGroupImage merges nothing in Phase 1 and in Phase 2 and the call
\* returns the sorted list as it is: the segmenter's Blocks, by area
\* descending with ties in insertion order ('area') or by (minY, minX)
\* ascending ('y_x'), zIndex = 0-based rank.
C28_OptimizerLeavesSegmentsUnchanged ==
  /\ [](pgStage \in {"segmented", "sorted", "optimized"} =>
          \A j \in 1..Len(pgBlocks) : \A k \in 1..Len(pgBlocks) :
             j # k => ~Mergeable(pgBlocks[j], pgBlocks[k]))
  /\ [](pgStage \in {"sorted", "optimized"} =>
          /\ \A k \in 1..Len(pgBlocks) : pgBlocks[k].zIndex = k - 1
          /\ \A j \in 1..Len(pgBlocks) : \A k \in 1..Len(pgBlocks) :
               j < k => IF sortBy = "area"
                        THEN pgBlocks[j].area >= pgBlocks[k].area
                        ELSE YXNotAfter(pgBlocks[j], pgBlocks[k]))
  /\ [](pgStage = "sorted" =>
          /\ tryMergeOperation(pgBlocks) = NoMerge
          /\ \A it \in 0..(MaxIterations - 1) : LocalSearchStep(pgBlocks, it) = pgBlocks)
  /\ [][pgStage = "segmented" =>
          /\ Len(pgBlocks') = Len(pgBlocks)
          /\ {Unranked(pgBlocks'[k]) : k \in 1..Len(pgBlocks')} = SeqRange(pgBlocks)
          /\ sortBy = "area" =>
               \A j \in 1..Len(pgBlocks') : \A k \in 1..Len(pgBlocks') :
                  (j < k /\ pgBlocks'[j].area = pgBlocks'[k].area) =>
                     PlaceIn(pgBlocks, pgBlocks'[j]) < PlaceIn(pgBlocks, pgBlocks'[k])]_vars
  /\ [][pgStage = "sorted" => pgBlocks' = pgBlocks]_vars

\* sorted by area and returned: at least three Blocks, two of one colour
\* (which touch at most diagonally) and two of equal area
C28_Witness ==
  /\ pgStage = "optimized"
  /\ sortBy = "area"
  /\ Len(pgBlocks) >= 3
  /\ \E j \in 1..Len(pgBlocks) : \E k \in 1..Len(pgBlocks) :
       j # k /\ pgBlocks[j].color = pgBlocks[k].color
  /\ \E j \in 1..Len(pgBlocks) : \E k \in 1..Len(pgBlocks) :
       j # k /\ pgBlocks[j].area = pgBlocks[k].area

(***************************************************************************)
(* Properties of the reference cache of generateDiffImage                  *)
(***************************************************************************)
\* the result of the call made without any cache: the reference decoded at
\* the call's resizeFactor
FreshResult(call) ==
  generateDiffImage(DecodeResized(imageFiles[call.prevImagePath + 1], call.resizeFactor),
                    imageFiles[call.currentImagePath + 1],
                    call.colorThreshold)

\* C30: after any sequence of generateDiffImage calls, the size, diff map and
\* diffRatio a call returns are those of the same call made without the
\* cache, whatever its useCache option and whatever the earlier calls cached.
C30_CachedEqualsFresh ==
  (diffStage = "returned" /\ diffCall # NoCall) => diffResult = FreshResult(diffCall)

=============================================================================
